---- MODULE Spec2Model ----
(***************************************************************************)
(* Model of traefik-github-auth: the in-memory token cache                 *)
(* (internal/cache/cache.go) and the validation orchestrator               *)
(* (internal/validator/validator.go).                                      *)
(*                                                                         *)
(* Spec     : goroutines calling the cache API (Get, Set, Delete, Len,     *)
(*            Stop) concurrently with the cleanupLoop goroutine.           *)
(* ValSpec  : goroutines calling Validator.Validate against the same       *)
(*            cache and a nondeterministic github.Client.                  *)
(* SeqSpec  : one goroutine calling the cache API, call after call, beside *)
(*            the cleanupLoop goroutine.                                   *)
(* SeqFair  : SeqSpec with the scheduling the Go runtime provides.         *)
(*                                                                         *)
(* LoopSpec : cleanupLoop from its first statement, for a cache made with   *)
(*            any positive ttl.                                            *)
(* FrontSpec: Handler.handleValidate serving one request, Validate being   *)
(*            the TokenValidator it is given.                              *)
(*                                                                         *)
(* WireSpec : one goroutine calling Validate, the github.Client being the   *)
(*            HTTPClient of internal/github/httpclient.go against a server *)
(*            that may answer anything.                                    *)
(*                                                                         *)
(* StableSpec : one goroutine calling Validate, the github.Client giving   *)
(*            for each token the same answers at every call.               *)
(*                                                                         *)
(* Time is an integer clock (now); a time.Duration is a number of clock    *)
(* units, Second of them to the second.  sync.RWMutex is modelled          *)
(* explicitly by mu.                                                       *)
(***************************************************************************)
EXTENDS Integers, Sequences, FiniteSets, TLC

\* ---------------------------------------------------------------- bounds
NumThreads == 2
NumTokens == 3
MaxTime == 2
MaxTTL == 1
MaxCap == 2
MaxCalls == 3
MaxValidates == 2
Second == 2
MaxChunks == 4
MaxPages == 3

Threads == 1..NumThreads
Tokens == 1..NumTokens
Sweeper == 0
NoHolder == -1

\* ------------------------------------------------------- errors and values
\* An error value: its message (a sequence of fragments), the sentinels that
\* errors.Is matches in its chain, and whether it is a wrapper made by
\* fmt.Errorf (a wrapper is never == to the sentinel it wraps).
Nil == [text |-> <<>>, is |-> {}, wrapped |-> FALSE]

\* errors.New
ErrorsNew(name, msg) == [text |-> <<msg>>, is |-> {name}, wrapped |-> FALSE]

\* mutant of Errorf: the verb is %v, so the chain is lost
ErrorfOpaque(prefix, err) == [text |-> <<prefix>> \o err.text, is |-> {}, wrapped |-> TRUE]

\* fmt.Errorf(prefix + "%w", err)
Errorf(prefix, err) == [text |-> <<prefix>> \o err.text, is |-> err.is, wrapped |-> TRUE]

\* errors.Is(err, target) for a sentinel target
Is(err, target) == target.is \subseteq err.is /\ target.is # {}

\* validator.go lines 24-29
ErrUnauthorized == ErrorsNew("validator.ErrUnauthorized", "unauthorized: invalid or revoked token")

ErrNotOrgMember == ErrorsNew("validator.ErrNotOrgMember", "forbidden: user is not a member of the organization")

ErrClassicPAT == ErrorsNew("validator.ErrClassicPAT", "forbidden: classic PATs are not allowed, use a fine-grained PAT")

ErrRateLimited == ErrorsNew("validator.ErrRateLimited", "rate limited: GitHub API rate limit exceeded")

\* github/types.go lines 37-41
GhErrUnauthorized == ErrorsNew("github.ErrUnauthorized", "github: unauthorized (invalid or revoked token)")

GhErrNotOrgMember == ErrorsNew("github.ErrNotOrgMember", "github: user is not a member of the organization")

GhErrRateLimited == ErrorsNew("github.ErrRateLimited", "github: API rate limit exceeded")

\* ValidationResult{} (the zero value)
ZeroResult == [Login |-> "", ID |-> 0, Email |-> "", Org |-> "", Teams |-> <<>>]

\* mutant of hashToken: the map is keyed by the token itself
hashTokenRaw(token) == token

\* hashToken: hex(sha256(token)).  A toy digest, injective on Tokens, whose
\* values lie outside Tokens.
hashToken(token) == 100 + ((token * 37) % 101)

Keys == {hashToken(t) : t \in Tokens}

\* mutant of Entry: the error of a negative entry is lost
EntryDropsErr(result, err, expiresAt) == [Result |-> result, Err |-> [text |-> <<>>, is |-> {}, wrapped |-> FALSE], ExpiresAt |-> expiresAt]

\* Entry{Result, Err, ExpiresAt}
Entry(result, err, expiresAt) == [Result |-> result, Err |-> err, ExpiresAt |-> expiresAt]

\* mutants of After: the arguments exchanged; expiry one unit early
AfterSwapped(t, u) == u > t

AfterOrEqual(t, u) == t >= u

\* time.Time.After / time.Time.Before
After(t, u) == t > u

Before(t, u) == t < u

\* ---------------------------------------------------------------- state
VARIABLES
    ttl,        \* Cache.ttl
    interval,   \* cleanupLoop: its local interval (0 before it is computed)
    maxSize,    \* Cache.maxSize
    entries,    \* Cache.entries: key -> Entry
    mu,         \* Cache.mu: [w |-> exclusive holder, r |-> set of shared holders]
    stop,       \* Cache.stop: "open" or "closed"
    entryGauge, \* the entries instrument: the sum of its Adds
    adds,       \* per goroutine: Adds the call in progress made to hits, misses, evictions
    now,        \* the clock read by time.Now()
    cpc,        \* cleanupLoop goroutine: position
    cnow,       \* removeExpired: its local now
    pc,         \* per goroutine: position
    op,         \* per goroutine: the API call in progress
    tok,        \* per goroutine: token argument
    arg,        \* per goroutine: (result, err) argument of Set
    loc,        \* per goroutine: locals (exists / entry, ok)
    ret,        \* per goroutine: value returned by the cache call
    panicked,   \* a goroutine panicked (close of closed channel)
    calls,      \* number of API calls the clients have made so far
    rejectClassicPATs,  \* Validator.rejectClassicPATs
    user,       \* per goroutine: Validate's user (from GetUser)
    vret,       \* per goroutine: value returned by Validate
    pcalls,     \* per goroutine: the github.Client calls this Validate made and their errors, in order
    prev,       \* history: the previous call (op, tok, arg, time) of a goroutine that is
                \* so far the only one to call the API; NoCall otherwise
    h,          \* Handler.handleValidate: the request being served, its position,
                \* what it passed to and got from Validate, and the response written
    gh,         \* HTTPClient: the call in progress, the responses it received and
                \* what it returns
    github      \* Validator.github when it is a client whose answers depend on the
                \* token only: token -> answers

cacheVars == <<ttl, interval, maxSize, entries, mu, stop, entryGauge, now, cpc, cnow, panicked>>

thrVars == <<pc, op, tok, arg, loc, ret, adds, calls, prev>>

valVars == <<rejectClassicPATs, user, vret, pcalls>>

frontVars == <<h, gh, github>>

vars == <<cacheVars, thrVars, valVars, frontVars>>

\* values used by the API clients of Spec
ResultA == [Login |-> "userA", ID |-> 1, Email |-> "a@example.com", Org |-> "test-org", Teams |-> <<"team-a", "team-b">>]

Outcomes == {<<ResultA, Nil>>, <<ZeroResult, ErrUnauthorized>>}

NoLoc == [exists |-> FALSE, entry |-> Entry(ZeroResult, Nil, 0), ok |-> FALSE]

\* At: the value of the call's time.Now()
NoRet == [Result |-> ZeroResult, Err |-> Nil, Found |-> FALSE, Len |-> -1, At |-> -1]

NoArg == <<ZeroResult, Nil>>

NoCall == [op |-> "none", tok |-> 1, arg |-> NoArg, at |-> -1]

\* github.User (types.go lines 9-12; Email as used by validator.go line 279)
NoUser == [Login |-> "", ID |-> 0, Email |-> ""]

\* Validate's (*ValidationResult, error): Ptr is FALSE for a nil pointer
NoVret == [Ptr |-> FALSE, Result |-> ZeroResult, Err |-> Nil]

NoAdds == [hits |-> 0, misses |-> 0, evictions |-> 0]

\* metric.Int64Counter.Add(nil, 1) on one of the counters, by goroutine t
Add1(t, counter) == adds' = [adds EXCEPT ![t][counter] = @ + 1]

\* len(c.entries)
CacheLen == Cardinality(DOMAIN entries)

\* ------------------------------------------------------------ sync.RWMutex
CanLock == mu.w = NoHolder /\ mu.r = {}

\* mutant of CanRLock: a reader does not wait for the writer
CanRLockAlways == TRUE

CanRLock == mu.w = NoHolder

\* ------------------------------------------------------------------- New
\* cache.go line 101: 30 * time.Second
MaxInterval == 30 * Second

\* mutant of Interval: an interval of zero is not replaced
IntervalNoFloor(d) ==
    LET half == d \div 2
    IN IF half > MaxInterval THEN MaxInterval ELSE half

\* cleanupLoop lines 100-106: the ticker's interval for a cache of ttl d
Interval(d) ==
    LET half == d \div 2
        capped == IF half > MaxInterval THEN MaxInterval ELSE half
    IN IF capped <= 0 THEN Second ELSE capped

\* no request is being served
NoRequest == [pc |-> "none"]

\* the HTTP client is not in a call
NoExchange == [pc |-> "none"]

\* New, lines 64-96, but for ttl, maxSize and the cleanupLoop goroutine
NewCache ==
    /\ entries = [k \in {} |-> Entry(ZeroResult, Nil, 0)]
    /\ mu = [w |-> NoHolder, r |-> {}]
    /\ stop = "open"
    /\ entryGauge = 0
    /\ adds = [t \in Threads |-> NoAdds]
    /\ now = 0
    /\ cnow = 0
    /\ pc = [t \in Threads |-> "idle"]
    /\ op = [t \in Threads |-> "none"]
    /\ tok = [t \in Threads |-> 1]
    /\ arg = [t \in Threads |-> NoArg]
    /\ loc = [t \in Threads |-> NoLoc]
    /\ ret = [t \in Threads |-> NoRet]
    /\ panicked = FALSE
    /\ calls = 0
    /\ prev = NoCall
    /\ user = [t \in Threads |-> NoUser]
    /\ vret = [t \in Threads |-> NoVret]
    /\ pcalls = [t \in Threads |-> <<>>]

\* New(ttl, maxSize), the cleanupLoop goroutine (if any) waiting in its select
CacheInit ==
    /\ ttl \in 0..MaxTTL
    /\ maxSize \in 0..MaxCap
    /\ cpc = IF ttl > 0 THEN "loop" ELSE "none"
    /\ interval = IF ttl > 0 THEN Interval(ttl) ELSE 0
    /\ NewCache

\* the cache alone: the validator's configuration plays no part
Init == CacheInit /\ rejectClassicPATs = FALSE /\ h = NoRequest /\ gh = NoExchange /\ github = <<>>

\* validator.New over the cache
ValInit == CacheInit /\ rejectClassicPATs \in BOOLEAN /\ h = NoRequest /\ gh = NoExchange /\ github = <<>>

Idle(t) == pc[t] \in {"idle", "done"}

\* t is the only goroutine that has called the API so far
Alone(t) == \A u \in Threads \ {t} : pc[u] = "idle"

\* The cache sees a token through hashToken only, so tokens are
\* interchangeable: they are numbered in the order in which the clients first
\* present them, and the n-th call presents one of the first n tokens.
Presentable == {k \in Tokens : k <= calls + 1}

\* a client goroutine makes its next API call.  The client goroutines run
\* the same code and are interchangeable: goroutine 1 is the one that makes
\* the first call.
Begin(t, name) ==
    /\ Idle(t)
    /\ calls = 0 => t = 1
    /\ calls < (IF name = "Validate" THEN MaxValidates ELSE MaxCalls)
    /\ calls' = calls + 1
    /\ op' = [op EXCEPT ![t] = name]
    /\ prev' = IF Alone(t) THEN [op |-> op[t], tok |-> tok[t], arg |-> arg[t], at |-> ret[t].At] ELSE NoCall

\* where a cache call returns to: its caller is Validate or the API client
Back(t, vpc) == IF op[t] = "Validate" THEN vpc ELSE "done"

\* -------------------------------------------------------------- Cache.Get
\* mutant of GetEnter: the lookup on a disabled cache is not counted
GetEnterNoMiss(t, back) ==
    /\ adds' = [adds EXCEPT ![t] = NoAdds]
    /\ ret' = [ret EXCEPT ![t] = NoRet]
    /\ loc' = [loc EXCEPT ![t] = NoLoc]
    /\ pc' = [pc EXCEPT ![t] = IF ttl = 0 THEN back ELSE "get_rlock"]

\* lines 141-148: a disabled cache misses at once; otherwise block on RLock
GetEnter(t, back) ==
    /\ adds' = [adds EXCEPT ![t] = IF ttl = 0 THEN [NoAdds EXCEPT !.misses = 1] ELSE NoAdds]
    /\ ret' = [ret EXCEPT ![t] = NoRet]
    /\ loc' = [loc EXCEPT ![t] = NoLoc]
    /\ pc' = [pc EXCEPT ![t] = IF ttl = 0 THEN back ELSE "get_rlock"]

GetCall(t) ==
    /\ Begin(t, "Get")
    /\ \E k \in Presentable : tok' = [tok EXCEPT ![t] = k]
    /\ arg' = [arg EXCEPT ![t] = NoArg]
    /\ GetEnter(t, "done")
    /\ UNCHANGED cacheVars
    /\ UNCHANGED valVars
    /\ UNCHANGED frontVars

GetRLock(t) ==
    /\ pc[t] = "get_rlock"
    /\ CanRLock
    /\ mu' = [mu EXCEPT !.r = @ \cup {t}]
    /\ pc' = [pc EXCEPT ![t] = "get_read"]
    /\ UNCHANGED <<ttl, interval, maxSize, entries, stop, entryGauge, now, cpc, cnow, panicked>>
    /\ UNCHANGED <<op, tok, arg, loc, ret, adds, calls, prev>>
    /\ UNCHANGED valVars
    /\ UNCHANGED frontVars

\* lines 149-155: entry, ok := c.entries[key]; RUnlock; miss when !ok
GetRead(t) ==
    /\ pc[t] = "get_read"
    /\ mu' = [mu EXCEPT !.r = @ \ {t}]
    /\ LET key == hashToken(tok[t])
           ok == key \in DOMAIN entries
       IN IF ok
          THEN /\ loc' = [loc EXCEPT ![t] = [NoLoc EXCEPT !.entry = entries[key], !.ok = TRUE]]
               /\ pc' = [pc EXCEPT ![t] = "get_check"]
               /\ UNCHANGED adds
          ELSE /\ Add1(t, "misses")
               /\ pc' = [pc EXCEPT ![t] = Back(t, "v_got")]
               /\ UNCHANGED loc
    /\ UNCHANGED <<ttl, interval, maxSize, entries, stop, entryGauge, now, cpc, cnow, panicked>>
    /\ UNCHANGED <<op, tok, arg, ret, calls, prev>>
    /\ UNCHANGED valVars
    /\ UNCHANGED frontVars

\* lines 157-163: lazy expiry against time.Now()
GetCheck(t) ==
    /\ pc[t] = "get_check"
    /\ IF After(now, loc[t].entry.ExpiresAt)
       THEN /\ Add1(t, "misses")
            /\ UNCHANGED ret
       ELSE /\ Add1(t, "hits")
            /\ ret' = [ret EXCEPT ![t] = [NoRet EXCEPT !.Result = loc[t].entry.Result, !.Err = loc[t].entry.Err, !.Found = TRUE, !.At = now]]
    /\ loc' = [loc EXCEPT ![t] = NoLoc]
    /\ pc' = [pc EXCEPT ![t] = Back(t, "v_got")]
    /\ UNCHANGED cacheVars
    /\ UNCHANGED <<op, tok, arg, calls, prev>>
    /\ UNCHANGED valVars
    /\ UNCHANGED frontVars

\* -------------------------------------------------------------- Cache.Set
\* mutant of SetEnter: the ttl == 0 test is missing
SetEnterAlways(t, back) ==
    /\ pc' = [pc EXCEPT ![t] = "set_lock"]
    /\ adds' = [adds EXCEPT ![t] = NoAdds]
    /\ loc' = [loc EXCEPT ![t] = NoLoc]

\* lines 175-181: no-op when disabled; otherwise block on Lock
SetEnter(t, back) ==
    /\ pc' = [pc EXCEPT ![t] = IF ttl = 0 THEN back ELSE "set_lock"]
    /\ adds' = [adds EXCEPT ![t] = NoAdds]
    /\ loc' = [loc EXCEPT ![t] = NoLoc]

SetCall(t) ==
    /\ Begin(t, "Set")
    /\ \E k \in Presentable : tok' = [tok EXCEPT ![t] = k]
    /\ \E o \in Outcomes : arg' = [arg EXCEPT ![t] = o]
    /\ ret' = [ret EXCEPT ![t] = NoRet]
    /\ SetEnter(t, "done")
    /\ UNCHANGED cacheVars
    /\ UNCHANGED valVars
    /\ UNCHANGED frontVars

\* mutant of Oldest: the comparison of evictOldest reversed (the newest goes)
OldestIsNewest == {k \in DOMAIN entries : \A j \in DOMAIN entries : ~Before(entries[k].ExpiresAt, entries[j].ExpiresAt)}

\* evictOldest (lines 203-221): the keys the range loop can end on, the
\* entries with the earliest ExpiresAt (map order decides among ties)
Oldest == {k \in DOMAIN entries : \A j \in DOMAIN entries : ~Before(entries[j].ExpiresAt, entries[k].ExpiresAt)}

\* mutant of AtCapacity: > for >=
AtCapacityOffByOne == maxSize > 0 /\ CacheLen > maxSize

\* line 187: c.maxSize > 0 && len(c.entries) >= c.maxSize
AtCapacity == maxSize > 0 /\ CacheLen >= maxSize

\* mutant of MustEvict: the !exists test is missing
MustEvictAlways(exists) == AtCapacity

\* line 187: !exists && c.maxSize > 0 && len(c.entries) >= c.maxSize
MustEvict(exists) == ~exists /\ AtCapacity

\* lines 181-189: Lock; exists; evictOldest when full and the key is new
SetLock(t) ==
    /\ pc[t] = "set_lock"
    /\ CanLock
    /\ mu' = [mu EXCEPT !.w = t]
    /\ LET key == hashToken(tok[t])
           exists == key \in DOMAIN entries
       IN /\ loc' = [loc EXCEPT ![t] = [NoLoc EXCEPT !.exists = exists]]
          /\ IF MustEvict(exists) /\ Oldest # {}
             THEN \E oldestKey \in Oldest :
                     /\ entries' = [k \in DOMAIN entries \ {oldestKey} |-> entries[k]]
                     /\ entryGauge' = entryGauge - 1
                     /\ Add1(t, "evictions")
             ELSE UNCHANGED <<entries, entryGauge, adds>>
    /\ pc' = [pc EXCEPT ![t] = "set_insert"]
    /\ UNCHANGED <<ttl, interval, maxSize, stop, now, cpc, cnow, panicked>>
    /\ UNCHANGED <<op, tok, arg, ret, calls, prev>>
    /\ UNCHANGED valVars
    /\ UNCHANGED frontVars

\* mutant of SetInsert: an existing entry is kept (first write wins)
SetInsertKeepsFirst(t) ==
    /\ pc[t] = "set_insert"
    /\ LET key == hashToken(tok[t])
           e == Entry(arg[t][1], arg[t][2], now + ttl)
       IN entries' = [k \in DOMAIN entries \cup {key} |-> IF k \in DOMAIN entries THEN entries[k] ELSE e]
    /\ entryGauge' = IF ~loc[t].exists THEN entryGauge + 1 ELSE entryGauge
    /\ mu' = [mu EXCEPT !.w = NoHolder]
    /\ loc' = [loc EXCEPT ![t] = NoLoc]
    /\ pc' = [pc EXCEPT ![t] = Back(t, "v_return")]
    /\ UNCHANGED <<ttl, interval, maxSize, stop, now, cpc, cnow, panicked>>
    /\ ret' = [ret EXCEPT ![t] = [NoRet EXCEPT !.At = now]]
    /\ UNCHANGED <<op, tok, arg, adds, calls, prev>>
    /\ UNCHANGED valVars
    /\ UNCHANGED frontVars

\* lines 191-199: insert with ExpiresAt = now + ttl; gauge; deferred Unlock
SetInsert(t) ==
    /\ pc[t] = "set_insert"
    /\ LET key == hashToken(tok[t])
           e == Entry(arg[t][1], arg[t][2], now + ttl)
       IN entries' = [k \in DOMAIN entries \cup {key} |-> IF k = key THEN e ELSE entries[k]]
    /\ entryGauge' = IF ~loc[t].exists THEN entryGauge + 1 ELSE entryGauge
    /\ mu' = [mu EXCEPT !.w = NoHolder]
    /\ loc' = [loc EXCEPT ![t] = NoLoc]
    /\ pc' = [pc EXCEPT ![t] = Back(t, "v_return")]
    /\ UNCHANGED <<ttl, interval, maxSize, stop, now, cpc, cnow, panicked>>
    /\ ret' = [ret EXCEPT ![t] = [NoRet EXCEPT !.At = now]]
    /\ UNCHANGED <<op, tok, arg, adds, calls, prev>>
    /\ UNCHANGED valVars
    /\ UNCHANGED frontVars

\* ----------------------------------------------------------- Cache.Delete
DeleteCall(t) ==
    /\ Begin(t, "Delete")
    /\ \E k \in Presentable : tok' = [tok EXCEPT ![t] = k]
    /\ pc' = [pc EXCEPT ![t] = "del_lock"]
    /\ loc' = [loc EXCEPT ![t] = NoLoc]
    /\ arg' = [arg EXCEPT ![t] = NoArg]
    /\ ret' = [ret EXCEPT ![t] = NoRet]
    /\ adds' = [adds EXCEPT ![t] = NoAdds]
    /\ UNCHANGED cacheVars
    /\ UNCHANGED valVars
    /\ UNCHANGED frontVars

\* mutant of DeleteBody: the gauge is decremented whether or not the key exists
DeleteBodyGaugeAlways(t) ==
    /\ pc[t] = "del_lock"
    /\ CanLock
    /\ entries' = [k \in DOMAIN entries \ {hashToken(tok[t])} |-> entries[k]]
    /\ entryGauge' = entryGauge - 1
    /\ pc' = [pc EXCEPT ![t] = "done"]
    /\ UNCHANGED <<ttl, interval, maxSize, mu, stop, now, cpc, cnow, panicked>>
    /\ UNCHANGED <<op, tok, arg, loc, ret, adds, calls, prev>>
    /\ UNCHANGED valVars
    /\ UNCHANGED frontVars

\* lines 228-235: Lock; remove when present; deferred Unlock
DeleteBody(t) ==
    /\ pc[t] = "del_lock"
    /\ CanLock
    /\ LET key == hashToken(tok[t])
       IN IF key \in DOMAIN entries
          THEN /\ entries' = [k \in DOMAIN entries \ {key} |-> entries[k]]
               /\ entryGauge' = entryGauge - 1
          ELSE UNCHANGED <<entries, entryGauge>>
    /\ pc' = [pc EXCEPT ![t] = "done"]
    /\ UNCHANGED <<ttl, interval, maxSize, mu, stop, now, cpc, cnow, panicked>>
    /\ UNCHANGED <<op, tok, arg, loc, ret, adds, calls, prev>>
    /\ UNCHANGED valVars
    /\ UNCHANGED frontVars

\* -------------------------------------------------------------- Cache.Len
LenCall(t) ==
    /\ Begin(t, "Len")
    /\ pc' = [pc EXCEPT ![t] = "len_rlock"]
    /\ loc' = [loc EXCEPT ![t] = NoLoc]
    /\ arg' = [arg EXCEPT ![t] = NoArg]
    /\ ret' = [ret EXCEPT ![t] = NoRet]
    /\ adds' = [adds EXCEPT ![t] = NoAdds]
    /\ UNCHANGED tok
    /\ UNCHANGED cacheVars
    /\ UNCHANGED valVars
    /\ UNCHANGED frontVars

\* lines 250-252: RLock; len(c.entries); deferred RUnlock
LenRead(t) ==
    /\ pc[t] = "len_rlock"
    /\ CanRLock
    /\ ret' = [ret EXCEPT ![t] = [NoRet EXCEPT !.Len = CacheLen]]
    /\ pc' = [pc EXCEPT ![t] = "done"]
    /\ UNCHANGED cacheVars
    /\ UNCHANGED <<op, tok, arg, loc, adds, calls, prev>>
    /\ UNCHANGED valVars
    /\ UNCHANGED frontVars

\* ------------------------------------------------------------- Cache.Stop
\* mutant of StopCall: no select, the channel is closed unconditionally
StopCallNoSelect(t) ==
    /\ Begin(t, "Stop")
    /\ pc' = [pc EXCEPT ![t] = "stop_close"]
    /\ loc' = [loc EXCEPT ![t] = NoLoc]
    /\ arg' = [arg EXCEPT ![t] = NoArg]
    /\ ret' = [ret EXCEPT ![t] = NoRet]
    /\ adds' = [adds EXCEPT ![t] = NoAdds]
    /\ UNCHANGED tok
    /\ UNCHANGED cacheVars
    /\ UNCHANGED valVars
    /\ UNCHANGED frontVars

\* lines 239-242: the select; "Already stopped" when the channel is closed
StopCall(t) ==
    /\ Begin(t, "Stop")
    /\ pc' = [pc EXCEPT ![t] = IF stop = "closed" THEN "done" ELSE "stop_close"]
    /\ loc' = [loc EXCEPT ![t] = NoLoc]
    /\ arg' = [arg EXCEPT ![t] = NoArg]
    /\ ret' = [ret EXCEPT ![t] = NoRet]
    /\ adds' = [adds EXCEPT ![t] = NoAdds]
    /\ UNCHANGED tok
    /\ UNCHANGED cacheVars
    /\ UNCHANGED valVars
    /\ UNCHANGED frontVars

\* line 243: close(c.stop); closing a closed channel panics
StopClose(t) ==
    /\ pc[t] = "stop_close"
    /\ IF stop = "closed"
       THEN panicked' = TRUE /\ UNCHANGED stop
       ELSE stop' = "closed" /\ UNCHANGED panicked
    /\ pc' = [pc EXCEPT ![t] = "done"]
    /\ UNCHANGED <<ttl, interval, maxSize, entries, mu, entryGauge, now, cpc, cnow>>
    /\ UNCHANGED <<op, tok, arg, loc, ret, adds, calls, prev>>
    /\ UNCHANGED valVars
    /\ UNCHANGED frontVars

\* ------------------------------------------------------------ cleanupLoop
\* lines 111-117, case <-ticker.C; removeExpired line 123: now := time.Now()
SweepTick ==
    /\ cpc = "loop"
    /\ cnow' = now
    /\ cpc' = "re_lock"
    /\ UNCHANGED <<ttl, interval, maxSize, entries, mu, stop, entryGauge, now, panicked>>
    /\ UNCHANGED thrVars
    /\ UNCHANGED valVars
    /\ UNCHANGED frontVars

\* mutant of SweepExit: break for return, which leaves the select and not
\* the for loop
SweepExitBreaksSelect ==
    /\ cpc = "loop"
    /\ stop = "closed"
    /\ cpc' = "loop"
    /\ UNCHANGED <<ttl, interval, maxSize, entries, mu, stop, entryGauge, now, cnow, panicked>>
    /\ UNCHANGED thrVars
    /\ UNCHANGED valVars
    /\ UNCHANGED frontVars

\* lines 113-114, case <-c.stop
SweepExit ==
    /\ cpc = "loop"
    /\ stop = "closed"
    /\ cpc' = "exited"
    /\ UNCHANGED <<ttl, interval, maxSize, entries, mu, stop, entryGauge, now, cnow, panicked>>
    /\ UNCHANGED thrVars
    /\ UNCHANGED valVars
    /\ UNCHANGED frontVars

\* cleanupLoop lines 100-109: the interval and the ticker
LoopStart ==
    /\ cpc = "start"
    /\ interval' = Interval(ttl)
    /\ cpc' = "loop"
    /\ UNCHANGED <<ttl, maxSize, entries, mu, stop, entryGauge, now, cnow, panicked>>
    /\ UNCHANGED thrVars
    /\ UNCHANGED valVars
    /\ UNCHANGED frontVars

\* removeExpired line 124
SweepLock ==
    /\ cpc = "re_lock"
    /\ CanLock
    /\ mu' = [mu EXCEPT !.w = Sweeper]
    /\ cpc' = "re_range"
    /\ UNCHANGED <<ttl, interval, maxSize, entries, stop, entryGauge, now, cnow, panicked>>
    /\ UNCHANGED thrVars
    /\ UNCHANGED valVars
    /\ UNCHANGED frontVars

\* mutant of Expired: receiver and argument exchanged (entry.ExpiresAt.After(now))
ExpiredSwapped == {k \in DOMAIN entries : After(entries[k].ExpiresAt, cnow)}

\* the entries removeExpired still has to delete
Expired == {k \in DOMAIN entries : After(cnow, entries[k].ExpiresAt)}

\* lines 127-131: one iteration that deletes
SweepDelete ==
    /\ cpc = "re_range"
    /\ \E key \in Expired :
          /\ entries' = [k \in DOMAIN entries \ {key} |-> entries[k]]
          /\ entryGauge' = entryGauge - 1
    /\ UNCHANGED <<ttl, interval, maxSize, mu, stop, now, cpc, cnow, panicked>>
    /\ UNCHANGED thrVars
    /\ UNCHANGED valVars
    /\ UNCHANGED frontVars

\* range exhausted; deferred Unlock; back to the select
SweepUnlock ==
    /\ cpc = "re_range"
    /\ Expired = {}
    /\ mu' = [mu EXCEPT !.w = NoHolder]
    /\ cpc' = "loop"
    /\ cnow' = 0
    /\ UNCHANGED <<ttl, interval, maxSize, entries, stop, entryGauge, now, panicked>>
    /\ UNCHANGED thrVars
    /\ UNCHANGED valVars
    /\ UNCHANGED frontVars

\* ------------------------------------------------------------------ clock
Tick ==
    /\ now < MaxTime
    /\ now' = now + 1
    /\ UNCHANGED <<ttl, interval, maxSize, entries, mu, stop, entryGauge, cpc, cnow, panicked>>
    /\ UNCHANGED thrVars
    /\ UNCHANGED valVars
    /\ UNCHANGED frontVars

\* ------------------------------------------------------ github.Client port
Org == "test-org"

Users == {[Login |-> "userA", ID |-> 1, Email |-> "a@example.com"]}

Team(slug, orgLogin) == [Slug |-> slug, Organization |-> [Login |-> orgLogin]]

TeamLists == {<<>>, <<Team("security", Org), Team("platform", Org)>>}

\* an error outside the three sentinels, and a request that the caller's
\* context aborted (cancelled, or past its deadline)
GhOther == [text |-> <<"github: unexpected status 500: ">>, is |-> {}, wrapped |-> TRUE]

GhCanceled == [text |-> <<"github: executing request: ", "context canceled">>, is |-> {"context.Canceled"}, wrapped |-> TRUE]

GhDeadline == [text |-> <<"github: executing request: ", "context deadline exceeded">>, is |-> {"context.DeadlineExceeded"}, wrapped |-> TRUE]

ProviderErrs == {GhErrUnauthorized, GhErrNotOrgMember, GhErrRateLimited, GhOther, GhCanceled, GhDeadline}

\* ------------------------------------------------------ Validator.Validate
\* what a github.Client call returned besides its error: GetUser's (*User,
\* bool), ListUserTeams' []Team
NoOut == [user |-> NoUser, classic |-> FALSE, teams |-> <<>>]

\* the arguments of a github.Client call after ctx: token, org, username
\* ("" where the method has no such parameter)
Args(token, org, username) == [token |-> token, org |-> org, username |-> username]

\* goroutine t called fn(in) on v.github and it answered (out, err)
Called(t, fn, in, out, err) == pcalls' = [pcalls EXCEPT ![t] = Append(@, [fn |-> fn, in |-> in, out |-> out, err |-> err])]

\* mutant of CallSet: the Set is forgotten
CallSetSkip(t, result, err) ==
    /\ pc' = [pc EXCEPT ![t] = "v_return"]
    /\ UNCHANGED <<arg, ret, adds, loc>>

\* mutant of CallSet: the organization is filled in whatever the outcome
CallSetWithOrg(t, result, err) ==
    /\ arg' = [arg EXCEPT ![t] = <<[result EXCEPT !.Org = Org], err>>]
    /\ ret' = [ret EXCEPT ![t] = NoRet]
    /\ SetEnter(t, "v_return")

\* v.cache.Set(token, result, err), then the rest of Validate
CallSet(t, result, err) ==
    /\ arg' = [arg EXCEPT ![t] = <<result, err>>]
    /\ ret' = [ret EXCEPT ![t] = NoRet]
    /\ SetEnter(t, "v_return")

\* mutant of Fail: every failure is cached as a negative entry
FailCaching(t, err) ==
    /\ vret' = [vret EXCEPT ![t] = [Ptr |-> FALSE, Result |-> ZeroResult, Err |-> err]]
    /\ CallSet(t, ZeroResult, err)

\* return nil, err
Fail(t, err) ==
    /\ vret' = [vret EXCEPT ![t] = [Ptr |-> FALSE, Result |-> ZeroResult, Err |-> err]]
    /\ pc' = [pc EXCEPT ![t] = "done"]
    /\ UNCHANGED <<arg, ret, adds, loc>>

\* lines 119-124: v.cache.Get(token)
ValidateEnter(t) ==
    /\ Begin(t, "Validate")
    /\ \E k \in Presentable : tok' = [tok EXCEPT ![t] = k]
    /\ arg' = [arg EXCEPT ![t] = NoArg]
    /\ user' = [user EXCEPT ![t] = NoUser]
    /\ vret' = [vret EXCEPT ![t] = NoVret]
    /\ pcalls' = [pcalls EXCEPT ![t] = <<>>]
    /\ GetEnter(t, "v_got")
    /\ UNCHANGED rejectClassicPATs
    /\ UNCHANGED cacheVars

ValidateCall(t) ==
    /\ ValidateEnter(t)
    /\ UNCHANGED frontVars

\* mutant of ValidateGot: only a positive hit returns; a negative hit goes on
ValidateGotPositiveOnly(t) ==
    /\ pc[t] = "v_got"
    /\ IF ret[t].Found /\ ret[t].Err = Nil
       THEN /\ vret' = [vret EXCEPT ![t] = [Ptr |-> TRUE, Result |-> ret[t].Result, Err |-> Nil]]
            /\ pc' = [pc EXCEPT ![t] = "done"]
       ELSE /\ pc' = [pc EXCEPT ![t] = "v_getuser"]
            /\ UNCHANGED vret
    /\ UNCHANGED cacheVars
    /\ UNCHANGED <<op, tok, arg, loc, ret, adds, calls, prev>>
    /\ UNCHANGED <<rejectClassicPATs, user, pcalls>>
    /\ UNCHANGED frontVars

\* lines 124-153: a hit returns the cached error or the cached result
ValidateGot(t) ==
    /\ pc[t] = "v_got"
    /\ IF ret[t].Found
       THEN /\ vret' = [vret EXCEPT ![t] = IF ret[t].Err # Nil
                                           THEN [Ptr |-> FALSE, Result |-> ZeroResult, Err |-> ret[t].Err]
                                           ELSE [Ptr |-> TRUE, Result |-> ret[t].Result, Err |-> Nil]]
            /\ pc' = [pc EXCEPT ![t] = "done"]
       ELSE /\ pc' = [pc EXCEPT ![t] = "v_getuser"]
            /\ UNCHANGED vret
    /\ UNCHANGED cacheVars
    /\ UNCHANGED <<op, tok, arg, loc, ret, adds, calls, prev>>
    /\ UNCHANGED <<rejectClassicPATs, user, pcalls>>
    /\ UNCHANGED frontVars

\* mutant of RejectsClassic: the configuration flag is not consulted
RejectsClassicAlways(isClassicPAT) == isClassicPAT

\* line 191: v.rejectClassicPATs && isClassicPAT
RejectsClassic(isClassicPAT) == rejectClassicPATs /\ isClassicPAT

\* mutant of IsUnauthorized: every remaining failure of GetUser counts as a
\* bad token
IsUnauthorizedAnyError(err) == err # Nil

\* line 167: errors.Is(err, github.ErrUnauthorized)
IsUnauthorized(err) == Is(err, GhErrUnauthorized)

\* lines 156-202: step 1, for the answer (u, isClassicPAT, err) of GetUser,
\* and the classic PAT check
GetUserStep(t, err, u, isClassicPAT) ==
    /\ pc[t] = "v_getuser"
    /\ Called(t, "GetUser", Args(tok[t], "", ""), IF err = Nil THEN [NoOut EXCEPT !.user = u, !.classic = isClassicPAT] ELSE NoOut, err)
    /\ IF err # Nil
       THEN /\ UNCHANGED user
            /\ IF Is(err, GhErrRateLimited)
               THEN Fail(t, Errorf("", ErrRateLimited))
               ELSE IF IsUnauthorized(err)
               THEN /\ CallSet(t, ZeroResult, ErrUnauthorized)
                    /\ vret' = [vret EXCEPT ![t] = [Ptr |-> FALSE, Result |-> ZeroResult, Err |-> Errorf("", ErrUnauthorized)]]
               ELSE Fail(t, Errorf("getting user: ", err))
       ELSE IF RejectsClassic(isClassicPAT)
       THEN /\ Fail(t, Errorf("", ErrClassicPAT))
            /\ UNCHANGED user
       ELSE /\ user' = [user EXCEPT ![t] = u]
            /\ pc' = [pc EXCEPT ![t] = "v_check"]
            /\ UNCHANGED <<arg, ret, adds, loc, vret>>
    /\ UNCHANGED cacheVars
    /\ UNCHANGED <<op, tok, calls, prev, rejectClassicPATs>>

\* step 1 against a github.Client that may answer anything
ValidateGetUser(t) ==
    /\ \E err \in ProviderErrs \cup {Nil}, u \in Users, isClassicPAT \in BOOLEAN : GetUserStep(t, err, u, isClassicPAT)
    /\ UNCHANGED frontVars

\* mutant of ValidateCheckOrg: a token whose user is not a member goes on to
\* the team listing
ValidateCheckOrgGoesOn(t) ==
    /\ pc[t] = "v_check"
    /\ \E err \in ProviderErrs \cup {Nil} :
       /\ Called(t, "CheckOrgMembership", Args(tok[t], Org, user[t].Login), NoOut, err)
       /\ IF err # Nil /\ ~Is(err, GhErrNotOrgMember)
          THEN IF Is(err, GhErrRateLimited)
               THEN Fail(t, Errorf("", ErrRateLimited))
               ELSE Fail(t, Errorf("checking org membership: ", err))
          ELSE /\ pc' = [pc EXCEPT ![t] = "v_teams"]
               /\ UNCHANGED <<arg, ret, adds, loc, vret>>
    /\ UNCHANGED cacheVars
    /\ UNCHANGED <<op, tok, calls, prev>>
    /\ UNCHANGED <<rejectClassicPATs, user>>
    /\ UNCHANGED frontVars

\* lines 205-241: step 2, for the answer err of
\* CheckOrgMembership(ctx, token, v.org, user.Login)
CheckOrgStep(t, err) ==
    /\ pc[t] = "v_check"
    /\ Called(t, "CheckOrgMembership", Args(tok[t], Org, user[t].Login), NoOut, err)
    /\ IF err # Nil
       THEN IF Is(err, GhErrRateLimited)
            THEN Fail(t, Errorf("", ErrRateLimited))
            ELSE IF Is(err, GhErrNotOrgMember)
            THEN Fail(t, Errorf("", ErrNotOrgMember))
            ELSE Fail(t, Errorf("checking org membership: ", err))
       ELSE /\ pc' = [pc EXCEPT ![t] = "v_teams"]
            /\ UNCHANGED <<arg, ret, adds, loc, vret>>
    /\ UNCHANGED cacheVars
    /\ UNCHANGED <<op, tok, calls, prev>>
    /\ UNCHANGED <<rejectClassicPATs, user>>

\* step 2 against a github.Client that may answer anything
ValidateCheckOrg(t) ==
    /\ \E err \in ProviderErrs \cup {Nil} : CheckOrgStep(t, err)
    /\ UNCHANGED frontVars

\* mutant of BuildResult: the team slugs are collected in reverse order
BuildResultReversed(u, teams) == [Login |-> u.Login, ID |-> u.ID, Email |-> u.Email, Org |-> Org, Teams |-> [i \in 1..Len(teams) |-> teams[Len(teams) + 1 - i].Slug]]

\* lines 270-273: the slugs, in order
TeamSlugs(teams) == [i \in 1..Len(teams) |-> teams[i].Slug]

\* lines 276-282
BuildResult(u, teams) == [Login |-> u.Login, ID |-> u.ID, Email |-> u.Email, Org |-> Org, Teams |-> TeamSlugs(teams)]

\* lines 244-285: step 3, for the answer (teams, err) of ListUserTeams;
\* build and cache the result
ListTeamsStep(t, err, teams) ==
    /\ pc[t] = "v_teams"
    /\ Called(t, "ListUserTeams", Args(tok[t], Org, ""), IF err = Nil THEN [NoOut EXCEPT !.teams = teams] ELSE NoOut, err)
    /\ IF err # Nil
       THEN IF Is(err, GhErrRateLimited)
            THEN Fail(t, Errorf("", ErrRateLimited))
            ELSE Fail(t, Errorf("listing user teams: ", err))
       ELSE LET result == BuildResult(user[t], teams)
            IN /\ CallSet(t, result, Nil)
               /\ vret' = [vret EXCEPT ![t] = [Ptr |-> TRUE, Result |-> result, Err |-> Nil]]
    /\ UNCHANGED cacheVars
    /\ UNCHANGED <<op, tok, calls, prev>>
    /\ UNCHANGED <<rejectClassicPATs, user>>

\* step 3 against a github.Client that may answer anything
ValidateListTeams(t) ==
    /\ \E err \in ProviderErrs \cup {Nil}, teams \in TeamLists : ListTeamsStep(t, err, teams)
    /\ UNCHANGED frontVars

\* lines 170-177 and 287-297: after Set, return
ValidateReturn(t) ==
    /\ pc[t] = "v_return"
    /\ pc' = [pc EXCEPT ![t] = "done"]
    /\ UNCHANGED cacheVars
    /\ UNCHANGED <<op, tok, arg, loc, ret, adds, calls, prev>>
    /\ UNCHANGED valVars
    /\ UNCHANGED frontVars

CacheStep(t) ==
    \/ GetRLock(t) \/ GetRead(t) \/ GetCheck(t)
    \/ SetLock(t) \/ SetInsert(t)

\* the sweep pass and the clock
Sweeping == SweepTick \/ SweepLock \/ SweepDelete \/ SweepUnlock \/ Tick

Background == Sweeping \/ SweepExit

Next ==
    \/ \E t \in Threads :
          \/ GetCall(t) \/ SetCall(t) \/ DeleteCall(t) \/ LenCall(t) \/ StopCall(t)
          \/ CacheStep(t)
          \/ DeleteBody(t) \/ LenRead(t) \/ StopClose(t)
    \/ Background

Spec == Init /\ [][Next]_vars

\* a single goroutine calls the cache API, one call after the other, beside
\* the cleanupLoop goroutine (the programs of cache_test.go)
SeqNext ==
    \/ GetCall(1) \/ SetCall(1) \/ DeleteCall(1) \/ LenCall(1) \/ StopCall(1)
    \/ CacheStep(1)
    \/ DeleteBody(1) \/ LenRead(1) \/ StopClose(1)
    \/ Background

SeqSpec == Init /\ [][SeqNext]_vars

\* Scheduling of the cleanupLoop goroutine.  The ticker keeps firing
\* (SweepTick); a goroutine that can run does run (SweepDelete, SweepUnlock);
\* sync.RWMutex hands the lock to a goroutine that keeps waiting for it
\* (starvation mode), so a Lock attempted at every release succeeds
\* (SweepLock); select picks at random among its ready cases, so a closed
\* stop channel that is ready at every visit of the select is picked
\* (SweepExit).
SweepFairness ==
    /\ WF_vars(SweepTick)
    /\ SF_vars(SweepLock)
    /\ WF_vars(SweepDelete)
    /\ WF_vars(SweepUnlock)
    /\ SF_vars(SweepExit)

\* a calling goroutine inside a cache call goes on to its end
ClientFairness == WF_vars(CacheStep(1) \/ DeleteBody(1) \/ LenRead(1) \/ StopClose(1))

SeqFair == SeqSpec /\ SweepFairness /\ ClientFairness

ValNext ==
    \/ \E t \in Threads :
          \/ ValidateCall(t) \/ ValidateGot(t) \/ ValidateGetUser(t)
          \/ ValidateCheckOrg(t) \/ ValidateListTeams(t) \/ ValidateReturn(t)
          \/ CacheStep(t)
    \/ Sweeping

\* the server of main: the cache is stopped only after the last request
\* (defer tokenCache.Stop()), so no Validate runs with the sweep task stopped
ValSpec == ValInit /\ [][ValNext]_vars

\* ------------------------------------------------------------ cleanupLoop
\* the longest ttl drawn: past twice the cap, where ttl/2 exceeds it
MaxDuration == 2 * MaxInterval + 3

\* New(ttl, 0) for any positive ttl, the cleanupLoop goroutine not yet run
LoopInit ==
    /\ ttl \in 1..MaxDuration
    /\ maxSize = 0
    /\ cpc = "start"
    /\ interval = 0
    /\ NewCache
    /\ rejectClassicPATs = FALSE
    /\ h = NoRequest /\ gh = NoExchange /\ github = <<>>

LoopNext == LoopStart \/ SweepTick \/ SweepLock \/ SweepUnlock \/ Tick

LoopSpec == LoopInit /\ [][LoopNext]_vars

\* =================================================================== claims
Max(a, b) == IF a >= b THEN a ELSE b

\* Validate has returned in goroutine t
Returned(t) == op[t] = "Validate" /\ pc[t] = "done"

\* the cache holds an entry for token k that has not expired
Live(k) == hashToken(k) \in DOMAIN entries /\ now <= entries[hashToken(k)].ExpiresAt

\* C1: with maxSize > 0 the map never holds more than maxSize entries, in any
\* state of any interleaving of Set, Delete, Get, Len, Stop and the sweep.
C1_LenAtMostMaxSize == maxSize > 0 => CacheLen <= maxSize

\* a Set on a full cache has evicted and returned
C1_Witness == \E t \in Threads : pc[t] = "done" /\ op[t] = "Set" /\ adds[t].evictions = 1 /\ maxSize > 0 /\ CacheLen = maxSize

\* C2: a Get whose clock reading is after the ExpiresAt of the entry it
\* found reports a miss, swept or not, sweep task stopped or not.
C2_LazyExpiry == [][\A t \in Threads : (pc[t] = "get_check" /\ pc'[t] # "get_check" /\ now > loc[t].entry.ExpiresAt) => ~ret'[t].Found]_vars

\* a Get missed on an expired entry that is still in the map, after the
\* sweep task exited
C2_Witness == \E t \in Threads : /\ pc[t] = "done" /\ op[t] = "Get" /\ ~ret[t].Found /\ adds[t].misses = 1
                                /\ hashToken(tok[t]) \in DOMAIN entries
                                /\ now > entries[hashToken(tok[t])].ExpiresAt
                                /\ cpc = "exited"

\* C3: when Validate's cache lookup is a hit, Validate returns the cached
\* error (negative entry) or the cached result (positive entry) and makes no
\* github.Client call.
C3_HitShortCircuits ==
    \A t \in Threads : (op[t] = "Validate" /\ ret[t].Found) =>
        /\ pcalls[t] = <<>>
        /\ pc[t] \in {"v_got", "done"}
        /\ pc[t] = "done" => /\ vret[t].Err = ret[t].Err
                             /\ vret[t].Ptr = (ret[t].Err = Nil)
                             /\ vret[t].Result = (IF ret[t].Err = Nil THEN ret[t].Result ELSE ZeroResult)

\* Validate returned from a negative hit
C3_Witness == \E t \in Threads : Returned(t) /\ ret[t].Found /\ ret[t].Err = ErrUnauthorized /\ vret[t].Err = ErrUnauthorized

\* the only github.Client call was GetUser and it answered github.ErrUnauthorized
OnlyGetUserUnauthorized(t) == Len(pcalls[t]) = 1 /\ pcalls[t][1].fn = "GetUser" /\ pcalls[t][1].err = GhErrUnauthorized

\* C4: on a miss where GetUser answers github.ErrUnauthorized (ttl > 0),
\* Validate returns ErrUnauthorized and has Set the negative entry
\* (zero result, ErrUnauthorized) for the token; with no other caller, that
\* entry is in the map and is a hit until ttl has elapsed.
C4_UnauthorizedCached ==
    \A t \in Threads : (Returned(t) /\ OnlyGetUserUnauthorized(t) /\ ttl > 0) =>
        /\ ~vret[t].Ptr
        /\ "validator.ErrUnauthorized" \in vret[t].Err.is
        /\ arg[t] = <<ZeroResult, ErrUnauthorized>>
        /\ ret[t].At >= 0
        /\ (Alone(t) /\ now <= ret[t].At + ttl) =>
              /\ Live(tok[t])
              /\ entries[hashToken(tok[t])].Err = ErrUnauthorized
              /\ entries[hashToken(tok[t])].Result = ZeroResult

C4_Witness == \E t \in Threads : /\ Returned(t) /\ OnlyGetUserUnauthorized(t) /\ ttl > 0 /\ Alone(t)
                                /\ Live(tok[t]) /\ entries[hashToken(tok[t])].Err = ErrUnauthorized

\* the last github.Client call answered github.ErrRateLimited
LastRateLimited(t) == pcalls[t] # <<>> /\ pcalls[t][Len(pcalls[t])].err = GhErrRateLimited

\* C5: when GetUser, CheckOrgMembership or ListUserTeams answers
\* github.ErrRateLimited, Validate returns ErrRateLimited and made no Set;
\* with no other caller, the token is still a miss afterwards.
C5_RateLimitedNotCached ==
    \A t \in Threads : (Returned(t) /\ LastRateLimited(t)) =>
        /\ ~vret[t].Ptr
        /\ "validator.ErrRateLimited" \in vret[t].Err.is
        /\ arg[t] = NoArg
        /\ ret[t].At = -1
        /\ Alone(t) => ~Live(tok[t])

\* rate limited at the third step, on a cache that is enabled
C5_Witness == \E t \in Threads : Returned(t) /\ LastRateLimited(t) /\ Len(pcalls[t]) = 3 /\ ttl > 0 /\ Alone(t)

\* C6: a Validate that ends with ErrNotOrgMember, ErrClassicPAT,
\* ErrRateLimited or another (internal) error has made no Set, and every
\* negative entry in the map holds ErrUnauthorized.
C6_OnlyUnauthorizedCached ==
    /\ \A t \in Threads : (Returned(t) /\ vret[t].Err # Nil /\ "validator.ErrUnauthorized" \notin vret[t].Err.is) =>
          /\ arg[t] = NoArg
          /\ ret[t].At = -1
    /\ \A k \in DOMAIN entries : entries[k].Err # Nil => entries[k].Err = ErrUnauthorized

\* Validate returned ErrNotOrgMember while the map holds a negative entry
C6_Witness == /\ \E t \in Threads : Returned(t) /\ "validator.ErrNotOrgMember" \in vret[t].Err.is
              /\ \E k \in DOMAIN entries : entries[k].Err = ErrUnauthorized

\* goroutine t, the only caller, has returned from a Validate of the token
\* whose previous Validate made a Set (Authorized or Unauthorized), and ttl
\* has not elapsed since that Set
C7_Window(t) ==
    /\ Returned(t) /\ Alone(t)
    /\ prev.op = "Validate" /\ prev.tok = tok[t]
    /\ prev.arg # NoArg /\ prev.at >= 0
    /\ now <= prev.at + ttl

C8_Pair(t, u) ==
    /\ t # u /\ Returned(t) /\ Returned(u) /\ calls = 2
    /\ tok[t] = tok[u]
    /\ pcalls[t] # <<>> /\ pcalls[t] = pcalls[u]
    /\ arg[t] = arg[u]

\* C8: two concurrent Validates of one uncached token that get the same
\* answers return the same outcome; when the outcome is cached both Sets
\* were applied, the entry left is the later one with that outcome, and the
\* map holds at most that one entry.
C8_ConcurrentMisses ==
    \A t, u \in Threads : C8_Pair(t, u) =>
        /\ vret[t] = vret[u]
        /\ CacheLen <= 1
        /\ (arg[t] # NoArg /\ ttl > 0) =>
              /\ ret[t].At >= 0 /\ ret[u].At >= 0
              /\ \/ /\ DOMAIN entries = {hashToken(tok[t])}
                    /\ entries[hashToken(tok[t])] = [Result |-> arg[t][1], Err |-> arg[t][2], ExpiresAt |-> Max(ret[t].At, ret[u].At) + ttl]
                 \/ /\ DOMAIN entries = {}
                    /\ now > Max(ret[t].At, ret[u].At) + ttl

\* both called the provider, both Sets were applied at different times
C8_Witness == \E t, u \in Threads : /\ C8_Pair(t, u) /\ vret[t].Ptr /\ ret[t].At >= 0 /\ ret[t].At < ret[u].At
                                   /\ CacheLen = 1

\* C9: the map is guarded by one reader/writer lock.  The exclusive holder
\* is exactly the goroutine inside Set's or the sweep's critical section, the
\* shared holders are exactly the goroutines inside Get's, a writer excludes
\* readers, no holder waits for the lock again, the map changes only under
\* the exclusive lock, and a goroutine waiting for the lock is never stuck.
C9_Holders ==
    /\ mu.w # NoHolder => mu.r = {}
    /\ \A t \in Threads : (mu.w = t) = (pc[t] = "set_insert")
    /\ \A t \in Threads : (t \in mu.r) = (pc[t] = "get_read")
    /\ (mu.w = Sweeper) = (cpc = "re_range")
    /\ mu.w \in Threads \cup {Sweeper, NoHolder} /\ mu.r \subseteq Threads

C9_Waiting == cpc = "re_lock" \/ \E t \in Threads : pc[t] \in {"get_rlock", "set_lock", "del_lock", "len_rlock"}

C9_Progress == SweepLock \/ SweepDelete \/ SweepUnlock \/ \E t \in Threads : GetRLock(t) \/ GetRead(t) \/ SetLock(t) \/ SetInsert(t) \/ DeleteBody(t) \/ LenRead(t)

C9_LockDiscipline ==
    /\ [](C9_Holders /\ (C9_Waiting => ENABLED C9_Progress))
    /\ [][entries' # entries => (mu.w # NoHolder \/ (mu.w = NoHolder /\ mu.r = {}))]_vars

\* a writer sits between evicting and inserting while a reader and
\* another goroutine wait for the lock
C9_Witness == \E t, u \in Threads : pc[t] = "set_insert" /\ adds[t].evictions = 1 /\ pc[u] = "get_rlock" /\ cpc = "re_lock"

\* goroutine t, the only caller, has returned from Get(k) made right after
\* its Set(k, outcome), and ttl has not elapsed since the Set
C10_RoundTrip(t) ==
    /\ Alone(t) /\ pc[t] = "done" /\ op[t] = "Get"
    /\ prev.op = "Set" /\ prev.tok = tok[t]
    /\ ttl > 0 /\ now <= prev.at + ttl

\* C10: with ttl > 0, Set(t, o) immediately followed by Get(t) before ttl
\* elapses returns found with exactly the result and the error stored.
C10_SetThenGet ==
    \A t \in Threads : C10_RoundTrip(t) =>
        /\ ret[t].Found
        /\ ret[t].Result = prev.arg[1]
        /\ ret[t].Err = prev.arg[2]

\* the round trip of a negative outcome, read at the last unexpired instant
C10_Witness == \E t \in Threads : C10_RoundTrip(t) /\ ret[t].Found /\ ret[t].Err = ErrUnauthorized /\ now = prev.at + ttl

\* the map m without key k
Without(m, k) == [j \in DOMAIN m \ {k} |-> m[j]]

\* goroutine t takes the step of Set from acquiring the lock to the insert
SetLocks(t) == pc[t] = "set_lock" /\ pc'[t] = "set_insert"

\* goroutine t takes the insert step of Set
SetInserts(t) == pc[t] = "set_insert" /\ pc'[t] # "set_insert"

\* C11: a Set of a key that is not in the map, on a cache at capacity
\* (maxSize > 0 and len >= maxSize), removes exactly one entry before the
\* insert, and no entry of the map expires before the removed one; the insert
\* that follows leaves maxSize entries: the new key and every other entry as
\* it was.  So after maxSize + 1 new keys with increasing expiry the first
\* one is gone and the others are in the map.
C11_EvictsOldest ==
    /\ [][\A t \in Threads : (SetLocks(t) /\ hashToken(tok[t]) \notin DOMAIN entries /\ maxSize > 0 /\ CacheLen >= maxSize) =>
            \E v \in DOMAIN entries :
                /\ \A j \in DOMAIN entries : entries[v].ExpiresAt <= entries[j].ExpiresAt
                /\ entries' = Without(entries, v)
                /\ adds'[t].evictions = 1
                /\ entryGauge' = entryGauge - 1]_vars
    /\ [][\A t \in Threads : (SetInserts(t) /\ adds[t].evictions = 1) =>
            /\ Cardinality(DOMAIN entries') = maxSize
            /\ hashToken(tok[t]) \in DOMAIN entries'
            /\ Without(entries', hashToken(tok[t])) = entries]_vars

\* the third of three Sets of distinct keys with expiry 1, 2, 3 on a cache
\* of two has evicted the first: the entries left expire at 2 and at 3
C11_Witness == \E t \in Threads : /\ pc[t] = "done" /\ op[t] = "Set" /\ adds[t].evictions = 1
                                 /\ maxSize = 2 /\ CacheLen = 2 /\ calls = 3 /\ Alone(t)
                                 /\ entries[hashToken(tok[t])].ExpiresAt = 3
                                 /\ \E k \in DOMAIN entries : entries[k].ExpiresAt = 2

\* C12: a Set of a key that is in the map evicts nothing, whatever the
\* capacity; its insert replaces that entry by the new outcome with ExpiresAt
\* = now + ttl, and leaves the number of entries, the gauge and every other
\* entry as they were.
C12_OverwriteInPlace ==
    /\ [][\A t \in Threads : (SetLocks(t) /\ hashToken(tok[t]) \in DOMAIN entries) =>
            /\ entries' = entries
            /\ entryGauge' = entryGauge
            /\ adds'[t].evictions = 0]_vars
    /\ [][\A t \in Threads : (SetInserts(t) /\ hashToken(tok[t]) \in DOMAIN entries) =>
            /\ DOMAIN entries' = DOMAIN entries
            /\ entries'[hashToken(tok[t])] = [Result |-> arg[t][1], Err |-> arg[t][2], ExpiresAt |-> now + ttl]
            /\ \A k \in DOMAIN entries \ {hashToken(tok[t])} : entries'[k] = entries[k]
            /\ entryGauge' = entryGauge
            /\ adds'[t].evictions = 0]_vars

\* a full cache of two, one caller: Set of another key, Set(k), and one unit
\* later, before the first entry of k expired, Set(k) with another outcome
C12_Witness == \E t \in Threads : /\ pc[t] = "done" /\ op[t] = "Set" /\ Alone(t) /\ calls = 3
                                 /\ prev.op = "Set" /\ prev.tok = tok[t] /\ prev.arg # arg[t]
                                 /\ prev.at >= 0 /\ prev.at < ret[t].At /\ now <= prev.at + ttl
                                 /\ maxSize = 2 /\ CacheLen = 2 /\ adds[t].evictions = 0
                                 /\ entries[hashToken(tok[t])] = [Result |-> arg[t][1], Err |-> arg[t][2], ExpiresAt |-> ret[t].At + ttl]

\* C13: in a cache built with ttl == 0 the map stays empty, the lock is never
\* taken by Get or Set, no cleanupLoop goroutine exists, every Get that
\* returned reported a miss and every Len that returned reported 0, whatever
\* calls (Set, Get, Delete, Len, Stop) were made.
C13_DisabledCache ==
    ttl = 0 =>
        /\ DOMAIN entries = {} /\ entryGauge = 0
        /\ cpc = "none" /\ cnow = 0
        /\ mu = [w |-> NoHolder, r |-> {}]
        /\ \A t \in Threads :
              /\ pc[t] \notin {"get_rlock", "get_read", "get_check", "set_lock", "set_insert"}
              /\ (pc[t] = "done" /\ op[t] = "Get") => (~ret[t].Found /\ adds[t] = [NoAdds EXCEPT !.misses = 1])
              /\ (pc[t] = "done" /\ op[t] = "Len") => ret[t].Len = 0

\* ttl == 0: Get(k) right after Set(k, a positive outcome) missed, with Stop
\* called by the other goroutine
C13_Witness == \E t \in Threads : /\ ttl = 0 /\ pc[t] = "done" /\ op[t] = "Get" /\ ~ret[t].Found
                                 /\ \E u \in Threads \ {t} : pc[u] = "done" /\ op[u] = "Set" /\ tok[u] = tok[t] /\ arg[u][2] = Nil
                                 /\ stop = "closed"

\* goroutine t takes the step of Delete
Deletes(t) == pc[t] = "del_lock" /\ pc'[t] = "done"

\* C14: Delete(k) removes the entry of k and nothing else: the count and the
\* gauge drop by one when k was in the map and the map, the count and the
\* gauge are unchanged when it was not; k is not in the map afterwards, so a
\* Delete(k) right after a Delete(k) changes nothing and a Get(k) right after
\* a Delete(k) misses.
C14_DeleteIdempotent ==
    /\ [][\A t \in Threads : Deletes(t) =>
            LET key == hashToken(tok[t])
                d == IF key \in DOMAIN entries THEN 1 ELSE 0
            IN /\ entries' = Without(entries, key)
               /\ key \notin DOMAIN entries'
               /\ Cardinality(DOMAIN entries') = CacheLen - d
               /\ entryGauge' = entryGauge - d
               /\ key \notin DOMAIN entries => entries' = entries]_vars
    /\ [][\A t \in Threads : (Deletes(t) /\ Alone(t) /\ prev.op = "Delete" /\ prev.tok = tok[t]) =>
            /\ entries' = entries
            /\ entryGauge' = entryGauge]_vars
    /\ [](\A t \in Threads : (pc[t] = "done" /\ op[t] = "Get" /\ Alone(t) /\ prev.op = "Delete" /\ prev.tok = tok[t]) => ~ret[t].Found)

\* one caller: Set(k), then Delete(k) before the entry expired; the map and
\* the gauge are back to empty
C14_Witness == \E t \in Threads : /\ pc[t] = "done" /\ op[t] = "Delete" /\ Alone(t) /\ calls = 2
                                 /\ prev.op = "Set" /\ prev.tok = tok[t] /\ prev.at >= 0 /\ now <= prev.at + ttl
                                 /\ ttl > 0 /\ DOMAIN entries = {} /\ entryGauge = 0

\* C15: when the Stop calls are made one after the other, no call panics: a
\* call reaches close(c.stop) only while the channel is open, a call made
\* with the channel closed returns at once, and no step of Stop changes
\* anything but the channel; this with ttl > 0 and with ttl == 0, and whether
\* or not Stop is ever called.
C15_StopIdempotent ==
    /\ [](~panicked /\ \A t \in Threads : pc[t] = "stop_close" => stop = "open")
    /\ [][\A t \in Threads : (op'[t] = "Stop" /\ pc[t] # pc'[t]) =>
            /\ <<ttl, interval, maxSize, entries, mu, entryGauge, now, cpc, cnow, panicked>>' = <<ttl, interval, maxSize, entries, mu, entryGauge, now, cpc, cnow, panicked>>
            /\ (stop = "closed" /\ pc[t] # "stop_close") => (pc'[t] = "done" /\ stop' = "closed")
            /\ pc[t] = "stop_close" => stop' = "closed"]_vars

\* the second of two consecutive Stops has returned, after the cleanupLoop
\* goroutine exited on the first
C15_Witness == /\ pc[1] = "done" /\ op[1] = "Stop" /\ prev.op = "Stop" /\ stop = "closed" /\ ~panicked
               /\ cpc = "exited"

\* the cleanupLoop goroutine is not running: it was never started or it returned
SweepGone == cpc \in {"none", "exited"}

\* C16: New starts the cleanupLoop goroutine exactly when ttl > 0.  Once the
\* stop channel is closed the goroutine eventually returns; a sweep pass it
\* has begun (waiting for the lock, or ranging over the map under the lock)
\* always comes to its end; and once it has returned it never runs again: it
\* takes no lock, samples no time and removes no entry.
C16_SweepTerminates ==
    /\ [](ttl = 0 <=> cpc = "none")
    /\ (stop = "closed") ~> SweepGone
    /\ (cpc \in {"re_lock", "re_range"}) ~> (cpc \in {"loop", "exited"})
    /\ [][SweepGone => (cpc' = cpc /\ cnow' = cnow /\ mu'.w # Sweeper)]_vars
    /\ [][(SweepGone /\ entries' # entries) => \E t \in Threads : pc'[t] # pc[t]]_vars

\* the cleanupLoop goroutine returned after Stop while an expired entry it
\* did not sweep is still in the map
C16_Witness == /\ cpc = "exited" /\ stop = "closed" /\ ttl > 0
               /\ \E k \in DOMAIN entries : now > entries[k].ExpiresAt

\* the cleanupLoop goroutine ends a sweep pass
PassEnds == cpc = "re_range" /\ cpc' = "loop"

\* C17: when a sweep pass that sampled the time cnow ends, no entry with
\* ExpiresAt <= cnow is left in the map; an entry whose ExpiresAt equals cnow
\* has been removed.
C17_SweepRemovesDue == [][PassEnds => \A k \in DOMAIN entries : ~(entries[k].ExpiresAt <= cnow)]_vars

\* no entry of the map is past its ExpiresAt
NoneExpired == \A k \in DOMAIN entries : ~(now > entries[k].ExpiresAt)

\* every entry of the map is past its ExpiresAt
AllExpired == \A k \in DOMAIN entries : now > entries[k].ExpiresAt

\* the calling goroutine has made its last call and returned from it
Quiet == calls = MaxCalls /\ \A t \in Threads : pc[t] \in {"idle", "done"}

\* C18: a sweep pass ends with no entry in the map whose ExpiresAt is before
\* the time the pass sampled, and as long as the stop channel is open the
\* passes keep coming: an entry that is past its ExpiresAt does not stay in
\* the map for ever (again and again the map holds no such entry), whether or
\* not any call reads, overwrites or deletes it.  So once the calls have
\* ended and every entry is past its ExpiresAt, the map eventually becomes
\* empty (Len() is 0).
C18_EventuallySwept ==
    /\ [][PassEnds => \A k \in DOMAIN entries : ~(cnow > entries[k].ExpiresAt)]_vars
    /\ []<>(NoneExpired \/ stop = "closed")
    /\ (Quiet /\ AllExpired) ~> (CacheLen = 0 \/ stop = "closed")

\* the only call ever made was a Set; its entry expired and the sweep has
\* removed it
C18_Witness == \E t \in Threads : /\ calls = 1 /\ pc[t] = "done" /\ op[t] = "Set" /\ ttl > 0
                                 /\ ret[t].At >= 0 /\ now > ret[t].At + ttl
                                 /\ DOMAIN entries = {} /\ stop = "open"

\* Validate of goroutine t returned after GetUser, CheckOrgMembership and
\* ListUserTeams, in this order, all answered without error
AllThreeSucceeded(t) ==
    /\ Returned(t) /\ Len(pcalls[t]) = 3
    /\ pcalls[t][1].fn = "GetUser" /\ pcalls[t][2].fn = "CheckOrgMembership" /\ pcalls[t][3].fn = "ListUserTeams"
    /\ \A i \in 1..3 : pcalls[t][i].err = Nil

\* the identity made of what GetUser and ListUserTeams answered to goroutine t
Identity(t) ==
    [Login |-> pcalls[t][1].out.user.Login,
     ID |-> pcalls[t][1].out.user.ID,
     Email |-> pcalls[t][1].out.user.Email,
     Org |-> "test-org",
     Teams |-> [i \in 1..Len(pcalls[t][3].out.teams) |-> pcalls[t][3].out.teams[i].Slug]]

ClassicReported(t) == pcalls[t] # <<>> /\ pcalls[t][1].fn = "GetUser" /\ pcalls[t][1].err = Nil /\ pcalls[t][1].out.classic

\* the answers goroutine t got, the classic flag of GetUser put aside
Answers(t) == [i \in 1..Len(pcalls[t]) |-> [pcalls[t][i] EXCEPT !.out.classic = FALSE]]

\* C20: with rejectClassicPATs set, a Validate to which GetUser reported a
\* classic PAT returns ErrClassicPAT having made no other github.Client call
\* and no Set.  With rejectClassicPATs not set, no Validate returns
\* ErrClassicPAT, a Validate told of a classic PAT goes on to
\* CheckOrgMembership, and two Validates that got the same answers but for
\* the classic flag return the same outcome and made the same Set.
C20_ClassicPAT ==
    /\ \A t \in Threads : (op[t] = "Validate" /\ ClassicReported(t) /\ rejectClassicPATs) =>
          /\ Returned(t)
          /\ Len(pcalls[t]) = 1
          /\ vret[t] = [Ptr |-> FALSE, Result |-> ZeroResult, Err |-> Errorf("", ErrClassicPAT)]
          /\ Is(vret[t].Err, ErrClassicPAT)
          /\ arg[t] = NoArg /\ ret[t].At = -1
    /\ ~rejectClassicPATs =>
          /\ \A t \in Threads : ~Is(vret[t].Err, ErrClassicPAT)
          /\ \A t \in Threads : (op[t] = "Validate" /\ ClassicReported(t) /\ Len(pcalls[t]) = 1) => pc[t] = "v_check"
          /\ \A t, u \in Threads : (Returned(t) /\ Returned(u) /\ pcalls[t] # <<>> /\ Answers(t) = Answers(u)) =>
                (vret[t] = vret[u] /\ arg[t] = arg[u])

\* rejectClassicPATs set: a Validate told of a classic PAT returned
\* ErrClassicPAT and the token is not in the map
C20_Witness == \E t \in Threads : /\ rejectClassicPATs /\ Returned(t) /\ ClassicReported(t) /\ ttl > 0
                                 /\ Is(vret[t].Err, ErrClassicPAT) /\ DOMAIN entries = {}
\* the calls goroutine t's Validate made on the provider are a prefix of
\* GetUser, CheckOrgMembership, ListUserTeams
InOrder(t) ==
    /\ Len(pcalls[t]) <= 3
    /\ \A i \in 1..Len(pcalls[t]) : pcalls[t][i].fn = <<"GetUser", "CheckOrgMembership", "ListUserTeams">>[i]

\* each call after the first was made because the one before it returned nil
Gated(t) == \A i \in 2..Len(pcalls[t]) : pcalls[t][i - 1].err = Nil

\* the arguments each call was given: the token under validation, the
\* configured organization, and for the membership check the login that
\* GetUser returned
RightArgs(t) ==
    \A i \in 1..Len(pcalls[t]) :
       /\ pcalls[t][i].in.token = tok[t]
       /\ pcalls[t][i].fn = "CheckOrgMembership" =>
             pcalls[t][i].in = Args(tok[t], Org, pcalls[t][1].out.user.Login)
       /\ pcalls[t][i].fn = "ListUserTeams" => pcalls[t][i].in.org = Org

\* C21: within one Validate the provider is called in a fixed order and each
\* call is gated on the one before: GetUser at most once and only after the
\* cache lookup missed; CheckOrgMembership at most once, only after GetUser
\* succeeded, for the configured organization and the login GetUser returned;
\* ListUserTeams at most once and only after CheckOrgMembership returned nil.
\* A lookup that hits makes no call at all.
C21_CallsOrderedAndGated ==
    \A t \in Threads :
       op[t] = "Validate" =>
          /\ InOrder(t)
          /\ Gated(t)
          /\ RightArgs(t)
          /\ pcalls[t] # <<>> => pc[t] \notin {"get_rlock", "get_read", "get_check", "v_got"} /\ ~ret[t].Found
          /\ ret[t].Found => pcalls[t] = <<>>

\* a Validate that made all three calls, the last one failing, and one that
\* stopped at the membership check
C21_Witness ==
    /\ Returned(1) /\ Len(pcalls[1]) = 3 /\ pcalls[1][3].err = GhOther
    /\ pcalls[1][2].in.username = "userA"
    /\ Returned(2) /\ Len(pcalls[2]) = 2 /\ pcalls[2][2].err = GhErrNotOrgMember

\* the last github.Client call of goroutine t's Validate
LastCall(t) == pcalls[t][Len(pcalls[t])]

\* an error that is none of the provider's sentinels
OtherErr(err) ==
    /\ err # Nil
    /\ ~Is(err, GhErrUnauthorized) /\ ~Is(err, GhErrNotOrgMember) /\ ~Is(err, GhErrRateLimited)

\* the context Validate puts in front of an error of each step
StepPrefix(fn) ==
    CASE fn = "GetUser" -> "getting user: "
      [] fn = "CheckOrgMembership" -> "checking org membership: "
      [] fn = "ListUserTeams" -> "listing user teams: "

\* errors.Is against each of the validator's sentinels
ValidatorSentinels == {ErrUnauthorized, ErrNotOrgMember, ErrClassicPAT, ErrRateLimited}

\* C22: when a provider call fails with an error that is none of the
\* provider's sentinels, Validate has returned at that very step (no later
\* call is made), with no result and with an error that wraps the provider's
\* error behind the step's context, matches none of the validator's sentinels,
\* and it has made no Set.
C22_OtherErrorWrapped ==
    \A t \in Threads :
       (op[t] = "Validate" /\ pcalls[t] # <<>> /\ OtherErr(LastCall(t).err)) =>
          /\ pc[t] = "done"
          /\ ~vret[t].Ptr /\ vret[t].Result = ZeroResult
          /\ vret[t].Err.wrapped
          /\ vret[t].Err.text = <<StepPrefix(LastCall(t).fn)>> \o LastCall(t).err.text
          /\ vret[t].Err.is = LastCall(t).err.is
          /\ \A e \in ValidatorSentinels : ~Is(vret[t].Err, e)
          /\ arg[t] = NoArg
          /\ ret[t].At = -1

\* an unexpected status at the membership check, and a canceled request at
\* the team listing, on a cache that is enabled
C22_Witness ==
    /\ ttl > 0 /\ maxSize > 0
    /\ Returned(1) /\ Len(pcalls[1]) = 2 /\ LastCall(1).err = GhOther
    /\ Returned(2) /\ Len(pcalls[2]) = 3 /\ LastCall(2).err = GhCanceled

\* the provider's sentinels (github/types.go lines 37-41)
ProviderSentinels == {GhErrUnauthorized, GhErrNotOrgMember, GhErrRateLimited}

\* the class of a failure: the validator sentinel it matches, else Internal
Class(err) ==
    IF Is(err, ErrUnauthorized) THEN "Unauthorized"
    ELSE IF Is(err, ErrNotOrgMember) THEN "NotMember"
    ELSE IF Is(err, ErrClassicPAT) THEN "ClassicPAT"
    ELSE IF Is(err, ErrRateLimited) THEN "RateLimited"
    ELSE "Internal"

\* C23: every failure Validate returns is Unauthorized, NotMember,
\* ClassicPAT, RateLimited or Internal, and no error Validate returns is, or
\* is matched by errors.Is as, one of the provider's own error values,
\* whichever step produced it.
C23_NoProviderErrorLeaks ==
    \A t \in Threads :
       (Returned(t) /\ vret[t].Err # Nil) =>
          /\ Class(vret[t].Err) \in {"Unauthorized", "NotMember", "ClassicPAT", "RateLimited", "Internal"}
          /\ vret[t].Err \notin ProviderErrs
          /\ \A g \in ProviderSentinels : ~Is(vret[t].Err, g)

\* the errors of a provider call that the caller's context aborted
Aborted == {GhCanceled, GhDeadline}

\* C24: when the caller's cancellation or deadline aborts a provider call,
\* Validate has returned at that step without a further call, with no result
\* and an error in which context.Canceled (or context.DeadlineExceeded) is
\* still matched and which is not Unauthorized nor any other validator
\* sentinel, and it has made no Set for the token.
C24_CancellationNotCached ==
    \A t \in Threads :
       (op[t] = "Validate" /\ pcalls[t] # <<>> /\ LastCall(t).err \in Aborted) =>
          /\ pc[t] = "done"
          /\ ~vret[t].Ptr
          /\ LastCall(t).err = GhCanceled => "context.Canceled" \in vret[t].Err.is
          /\ LastCall(t).err = GhDeadline => "context.DeadlineExceeded" \in vret[t].Err.is
          /\ Class(vret[t].Err) = "Internal"
          /\ arg[t] = NoArg
          /\ ret[t].At = -1
          /\ \A k \in DOMAIN entries : entries[k].Err # Nil => entries[k].Err = ErrUnauthorized

\* GetUser cancelled for one caller and past its deadline for the other, on
\* a cache that is enabled and holds nothing for either token
C24_Witness ==
    /\ ttl > 0 /\ maxSize > 0
    /\ Returned(1) /\ Len(pcalls[1]) = 1 /\ LastCall(1).err = GhCanceled
    /\ Returned(2) /\ Len(pcalls[2]) = 1 /\ LastCall(2).err = GhDeadline
    /\ hashToken(tok[1]) \notin DOMAIN entries /\ hashToken(tok[2]) \notin DOMAIN entries

\* the three counters
Counters == {"hits", "misses", "evictions"}

\* a step in which goroutine t may enter a new API call (its tally of Adds
\* starts again)
Enters(t) == Idle(t) /\ calls' # calls

\* every Add on a counter is +1: within a call no tally goes down, and a
\* step adds to at most one counter
CountersOnlyGrow ==
    \A t \in Threads :
       ~Enters(t) =>
          /\ \A c \in Counters : adds'[t][c] \in {adds[t][c], adds[t][c] + 1}
          /\ Cardinality({c \in Counters : adds'[t][c] # adds[t][c]}) <= 1

\* the eviction counter moves exactly when a Set at capacity removes an entry
\* to make room; Delete and the sweep remove entries without counting
EvictionsCounted ==
    \A t \in Threads :
       /\ (~Enters(t) /\ adds'[t].evictions # adds[t].evictions) =>
             /\ SetLocks(t)
             /\ CacheLen' = CacheLen - 1
             /\ CacheLen >= maxSize
       /\ (SetLocks(t) /\ CacheLen' # CacheLen) => adds'[t].evictions = adds[t].evictions + 1
       /\ (Deletes(t) \/ cpc' # cpc) => adds' = adds

\* a finished Get has counted exactly one hit or one miss
GetCounted(t) ==
    (op[t] = "Get" /\ pc[t] = "done") =>
       /\ adds[t].hits + adds[t].misses = 1
       /\ adds[t].evictions = 0
       /\ ret[t].Found <=> adds[t].hits = 1
       /\ ttl = 0 => adds[t].misses = 1

\* C25: the entry gauge equals Len() in every state (so after every Set,
\* Delete, eviction and sweep pass); the hit, miss and eviction counters only
\* grow; every Get counts exactly one hit or one miss, a Get on a disabled
\* cache and a Get of an expired entry counting as a miss; the eviction
\* counter grows by one per capacity eviction and not when the sweep or
\* Delete removes an entry.
C25_Metrics ==
    /\ [](entryGauge = CacheLen)
    /\ [](\A t \in Threads : GetCounted(t))
    /\ [][CountersOnlyGrow /\ EvictionsCounted]_vars

\* a Set that evicted to make room has finished, the gauge reads the size
\* of the full cache, and the other goroutine's Get of an entry that is in
\* the map was a miss
C25_Witness ==
    \E t, u \in Threads :
       /\ op[t] = "Set" /\ pc[t] = "done" /\ adds[t].evictions = 1
       /\ entryGauge = maxSize /\ maxSize > 0
       /\ op[u] = "Get" /\ pc[u] = "done" /\ adds[u].misses = 1 /\ hashToken(tok[u]) \in DOMAIN entries

\* C26: the map never holds the raw credential.  Every key is the digest of
\* a token and never a token; the digest is a function of the token that
\* gives different tokens different keys; an entry is filed under the digest
\* of the token it was Set for; and an entry's value is made of Set's result
\* and err arguments and the expiry only, not of the token.
C26_TokenNotRetained ==
    /\ \A k \in DOMAIN entries : \E token \in Tokens : k = hashToken(token)
    /\ DOMAIN entries \cap Tokens = {}
    /\ \A a, b \in Tokens : (hashToken(a) = hashToken(b)) <=> (a = b)
    /\ \A k \in DOMAIN entries :
          /\ <<entries[k].Result, entries[k].Err>> \in Outcomes
          /\ DOMAIN entries[k] = {"Result", "Err", "ExpiresAt"}
    /\ \A t \in Threads :
          (op[t] = "Set" /\ pc[t] = "done" /\ ttl > 0 /\ Alone(t) /\ now <= ret[t].At + ttl) =>
             /\ hashToken(tok[t]) \in DOMAIN entries
             /\ <<entries[hashToken(tok[t])].Result, entries[hashToken(tok[t])].Err>> = arg[t]

\* two different tokens are stored, under two different keys
C26_Witness ==
    \E t \in Threads :
       /\ op[t] = "Set" /\ pc[t] = "done" /\ Alone(t) /\ now <= ret[t].At + ttl
       /\ prev.op = "Set" /\ prev.tok # tok[t]
       /\ DOMAIN entries = {hashToken(tok[t]), hashToken(prev.tok)}
       /\ CacheLen = 2

\* the identities Validate can assemble from the provider's answers
Identities == {[Login |-> u.Login, ID |-> u.ID, Email |-> u.Email, Org |-> Org, Teams |-> TeamSlugs(l)] : u \in Users, l \in TeamLists}

\* a negative entry: an error and the zero-value identity
Negative(e) == e.Err # Nil /\ e.Result = ZeroResult

\* a positive entry: no error and an identity
Positive(e) == e.Err = Nil /\ e.Result \in Identities

\* C27: every entry that Validate puts in the cache, and every lookup result
\* Validate reads back from it, is exactly one of the two variants: an error
\* with the zero-value identity, or no error with an identity; never an error
\* together with identity fields.
C27_OneVariant ==
    /\ ZeroResult \notin Identities
    /\ \A k \in DOMAIN entries : Negative(entries[k]) \/ Positive(entries[k])
    /\ \A t \in Threads : ret[t].Found => Negative(ret[t]) \/ Positive(ret[t])

\* the cache holds one entry of each variant
C27_Witness ==
    /\ \E k \in DOMAIN entries : Negative(entries[k])
    /\ \E k \in DOMAIN entries : Positive(entries[k]) /\ entries[k].Result.Teams # <<>>

\* C28: for every ttl > 0 the sweep interval is min(ttl/2, 30s), replaced by
\* 1s when that is zero or negative: it is strictly positive, at most 30s,
\* and equal to ttl/2 (integer division) whenever 0 < ttl/2 <= 30s.
C28_SweepInterval ==
    (ttl > 0 /\ cpc \notin {"start", "none"}) =>
       /\ interval > 0
       /\ interval <= 30 * Second
       /\ (0 < ttl \div 2 /\ ttl \div 2 <= 30 * Second) => interval = ttl \div 2
       /\ ttl \div 2 > 30 * Second => interval = 30 * Second
       /\ ttl \div 2 <= 0 => interval = Second

\* the loop of a cache whose ttl is the smallest duration ticks every second
C28_Witness == cpc = "re_range" /\ ttl = 1 /\ interval = Second

\* ------------------------------------------------- Handler.handleValidate
\* A header name or value is the sequence of its characters, so that
\* prefixes and trimming are computed on it.
\* strings.HasPrefix
HasPrefix(s, prefix) == Len(s) >= Len(prefix) /\ SubSeq(s, 1, Len(prefix)) = prefix

\* strings.TrimPrefix
TrimPrefix(s, prefix) == IF HasPrefix(s, prefix) THEN SubSeq(s, Len(prefix) + 1, Len(s)) ELSE s

RECURSIVE TrimLeft(_)
TrimLeft(s) == IF s # <<>> /\ s[1] = " " THEN TrimLeft(Tail(s)) ELSE s

RECURSIVE TrimRight(_)
TrimRight(s) == IF s # <<>> /\ s[Len(s)] = " " THEN TrimRight(SubSeq(s, 1, Len(s) - 1)) ELSE s

\* strings.TrimSpace (the only white space drawn is the space)
TrimSpace(s) == TrimRight(TrimLeft(s))

\* fmt.Sprintf("%d", n) for n >= 0
Digit(d) == <<"0", "1", "2", "3", "4", "5", "6", "7", "8", "9">>[d + 1]

RECURSIVE Itoa(_)
Itoa(n) == IF n < 10 THEN <<Digit(n)>> ELSE Itoa(n \div 10) \o <<Digit(n % 10)>>

\* strings.Join: the elements with sep between them
RECURSIVE Join(_, _)
Join(elems, sep) ==
    IF elems = <<>> THEN <<>>
    ELSE IF Len(elems) = 1 THEN <<elems[1]>>
    ELSE <<elems[1], sep>> \o Join(Tail(elems), sep)

\* line 81
authHeaderPrefix == <<"X", "-", "A", "u", "t", "h", "-", "U", "s", "e", "r", "-">>

\* line 191: "Bearer "
bearerPrefix == <<"B", "e", "a", "r", "e", "r", " ">>

\* the response headers of lines 128-131, and writeJSONError's
HdrLogin == authHeaderPrefix \o <<"L", "o", "g", "i", "n">>

HdrId == authHeaderPrefix \o <<"I", "d">>

HdrOrg == authHeaderPrefix \o <<"O", "r", "g">>

HdrTeams == authHeaderPrefix \o <<"T", "e", "a", "m", "s">>

HdrContentType == <<"C", "o", "n", "t", "e", "n", "t", "-", "T", "y", "p", "e">>

HdrAuthorization == <<"A", "u", "t", "h", "o", "r", "i", "z", "a", "t", "i", "o", "n">>

\* request header names besides Authorization, in the canonical form
\* net/http gives the keys of r.Header: an identity header, the bare prefix,
\* and a name that stops one character short of the prefix
ExtraNames == {HdrLogin, authHeaderPrefix, <<"X", "-", "A", "u", "t", "h", "-", "U", "s", "e", "r">>}

\* the pieces Authorization values are drawn from
Chunks == {<<"B", "e", "a", "r", "e", "r">>, <<"b", "e", "a", "r", "e", "r">>, <<" ">>, <<"t">>}

RECURSIVE Flatten(_)
Flatten(ss) == IF ss = <<>> THEN <<>> ELSE Head(ss) \o Flatten(Tail(ss))

\* Authorization values: "" (absent), "Bearer t", "Bearer", "Bearer  ",
\* "bearer t", "t", "Bearer t t", ...
AuthValues == {Flatten(c) : c \in UNION {[1..n -> Chunks] : n \in 0..MaxChunks}}

Requests == [names : SUBSET ExtraNames, auth : AuthValues]

\* the keys of r.Header
HeaderNames(req) == req.names \cup (IF req.auth # <<>> THEN {HdrAuthorization} ELSE {})

\* mutant of parseBearerToken: an empty token is accepted
parseBearerTokenAny(header) ==
    IF ~HasPrefix(header, bearerPrefix)
    THEN [token |-> <<>>, ok |-> FALSE]
    ELSE [token |-> TrimSpace(TrimPrefix(header, bearerPrefix)), ok |-> TRUE]

\* lines 190-201
parseBearerToken(header) ==
    IF ~HasPrefix(header, bearerPrefix)
    THEN [token |-> <<>>, ok |-> FALSE]
    ELSE LET token == TrimSpace(TrimPrefix(header, bearerPrefix))
         IN IF token = <<>> THEN [token |-> <<>>, ok |-> FALSE] ELSE [token |-> token, ok |-> TRUE]

\* lines 209-213: the response writeJSONError writes
writeJSONError(status, message) ==
    [status |-> status, body |-> message, headers |-> [n \in {HdrContentType} |-> <<"application/json">>]]

\* mutant of handleValidationError: the default case answers with err.Error()
handleValidationErrorLeaks(err) ==
    IF Is(err, ErrUnauthorized) THEN writeJSONError(401, <<"access denied">>)
    ELSE IF Is(err, ErrNotOrgMember) THEN writeJSONError(403, <<"access denied">>)
    ELSE IF Is(err, ErrClassicPAT) THEN writeJSONError(403, <<"forbidden: classic PATs are not allowed">>)
    ELSE IF Is(err, ErrRateLimited) THEN writeJSONError(429, <<"rate limit exceeded, try again later">>)
    ELSE writeJSONError(500, err.text)

\* lines 143-172
handleValidationError(err) ==
    IF Is(err, ErrUnauthorized) THEN writeJSONError(401, <<"access denied">>)
    ELSE IF Is(err, ErrNotOrgMember) THEN writeJSONError(403, <<"access denied">>)
    ELSE IF Is(err, ErrClassicPAT) THEN writeJSONError(403, <<"forbidden: classic PATs are not allowed">>)
    ELSE IF Is(err, ErrRateLimited) THEN writeJSONError(429, <<"rate limit exceeded, try again later">>)
    ELSE writeJSONError(500, <<"internal server error">>)

\* lines 128-139: the identity headers and WriteHeader(200)
Success(result) ==
    [status |-> 200, body |-> <<>>,
     headers |-> [n \in {HdrLogin, HdrId, HdrOrg, HdrTeams} |->
                    IF n = HdrLogin THEN <<result.Login>>
                    ELSE IF n = HdrId THEN Itoa(result.ID)
                    ELSE IF n = HdrOrg THEN <<result.Org>>
                    ELSE Join(result.Teams, ",")]]

\* the provider errors each step of Validate returns wrapped (the others are
\* translated into a validator sentinel)
Untranslated(fn) ==
    CASE fn = "GetUser" -> ProviderErrs \ {GhErrRateLimited, GhErrUnauthorized}
      [] fn = "CheckOrgMembership" -> ProviderErrs \ {GhErrRateLimited, GhErrNotOrgMember}
      [] fn = "ListUserTeams" -> ProviderErrs \ {GhErrRateLimited}

\* what TokenValidator.Validate returns: validator.go lines 138, 150, 164,
\* 177, 187, 201, 212, 226, 240, 252, 266, 297
ValidateErrs ==
    {ErrUnauthorized}
    \cup {Errorf("", e) : e \in ValidatorSentinels}
    \cup {Errorf(StepPrefix(fn), e) : <<fn, e>> \in UNION {{fn} \X Untranslated(fn) : fn \in {"GetUser", "CheckOrgMembership", "ListUserTeams"}}}

ValidateOutcomes ==
    {[Ptr |-> TRUE, Result |-> r, Err |-> Nil] : r \in Identities}
    \cup {[Ptr |-> FALSE, Result |-> ZeroResult, Err |-> e] : e \in ValidateErrs}

\* nothing written yet
NoResp == [status |-> 0, body |-> <<>>, headers |-> [n \in {} |-> <<>>]]

\* handleValidate is entered with request req
Serving(req) == [pc |-> "start", req |-> req, token |-> <<>>, validated |-> 0, out |-> NoVret, resp |-> NoResp]

\* lines 85-118: the two guards
HandleGuards ==
    /\ h.pc = "start"
    /\ IF \E name \in HeaderNames(h.req) : HasPrefix(name, authHeaderPrefix)
       THEN h' = [h EXCEPT !.pc = "done", !.resp = writeJSONError(403, <<"forbidden: request contains disallowed headers">>)]
       ELSE IF h.req.auth = <<>>
       THEN h' = [h EXCEPT !.pc = "done", !.resp = writeJSONError(401, <<"missing or malformed Authorization header">>)]
       ELSE LET parsed == parseBearerToken(h.req.auth)
            IN IF ~parsed.ok
               THEN h' = [h EXCEPT !.pc = "done", !.resp = writeJSONError(401, <<"missing or malformed Authorization header">>)]
               ELSE h' = [h EXCEPT !.pc = "validate", !.token = parsed.token]
    /\ UNCHANGED <<cacheVars, thrVars, valVars, gh, github>>

\* lines 121-139: h.validator.Validate(ctx, token) and the response
HandleValidate ==
    /\ h.pc = "validate"
    /\ \E out \in ValidateOutcomes :
          h' = [h EXCEPT !.pc = "done", !.validated = @ + 1, !.out = out,
                         !.resp = IF out.Err # Nil THEN handleValidationError(out.Err) ELSE Success(out.Result)]
    /\ UNCHANGED <<cacheVars, thrVars, valVars, gh, github>>

\* one request to /validate, over a validator and cache that nothing else uses
FrontInit ==
    /\ ttl = MaxTTL
    /\ maxSize = MaxCap
    /\ cpc = "loop"
    /\ interval = Interval(ttl)
    /\ NewCache
    /\ rejectClassicPATs = FALSE
    /\ h \in {Serving(req) : req \in Requests}
    /\ gh = NoExchange
    /\ github = <<>>

FrontNext == HandleGuards \/ HandleValidate

FrontSpec == FrontInit /\ [][FrontNext]_vars

\* the response carries an identity header
IdentityHeaders == \E n \in DOMAIN h.resp.headers : HasPrefix(n, authHeaderPrefix)

\* the status and message the front door gives each class of failure ("" for
\* a message the claim leaves open)
Answer(class) ==
    CASE class = "Unauthorized" -> <<401, "access denied">>
      [] class = "NotMember" -> <<403, "access denied">>
      [] class = "ClassicPAT" -> <<403, "">>
      [] class = "RateLimited" -> <<429, "">>
      [] class = "Internal" -> <<500, "internal server error">>

\* C29: when Validate fails, the front door answers by the class of the
\* error: Unauthorized 401 "access denied", NotMember 403 "access denied",
\* ClassicPAT 403, RateLimited 429, anything else 500 "internal server
\* error"; no part of the error's own text is in the response body, and no
\* identity header is set.
C29_ErrorMapping ==
    (h.pc = "done" /\ h.validated > 0 /\ h.out.Err # Nil) =>
       LET answer == Answer(Class(h.out.Err))
       IN /\ h.resp.status = answer[1]
          /\ answer[2] # "" => h.resp.body = <<answer[2]>>
          /\ Len(h.resp.body) = 1
          /\ \A i \in DOMAIN h.out.Err.text : h.resp.body[1] # h.out.Err.text[i]
          /\ ~IdentityHeaders

\* the provider's Unauthorized at the membership check, which Validate
\* returns wrapped, is answered 500
C29_Witness ==
    /\ h.pc = "done" /\ h.validated = 1
    /\ h.out.Err.text = <<"checking org membership: ", "github: unauthorized (invalid or revoked token)">>
    /\ h.resp.status = 500

\* the request carries a header whose name starts with X-Auth-User-
Injected == \E n \in h.req.names : Len(n) >= 12 /\ \A i \in 1..12 : n[i] = authHeaderPrefix[i]

\* the Authorization header is missing, does not start with "Bearer ", or
\* has nothing but spaces after it
BadAuth ==
    \/ Len(h.req.auth) < 7
    \/ \E i \in 1..7 : h.req.auth[i] # bearerPrefix[i]
    \/ \A i \in 8..Len(h.req.auth) : h.req.auth[i] = " "

\* C30: handleValidate calls Validate only for a request that passes both
\* guards.  A request with a header whose name starts with X-Auth-User- is
\* answered 403; otherwise one whose Authorization header is missing, not
\* prefixed "Bearer ", or has an empty token is answered 401; in both cases
\* Validate is not called and the response has no X-Auth-User-* header.  A
\* request that passes is validated once, with the token after "Bearer ".
C30_Guards ==
    h.pc # "start" =>
       /\ Injected => h.pc = "done" /\ h.resp.status = 403 /\ h.validated = 0 /\ ~IdentityHeaders
       /\ (~Injected /\ BadAuth) => h.pc = "done" /\ h.resp.status = 401 /\ h.validated = 0 /\ ~IdentityHeaders
       /\ (~Injected /\ ~BadAuth) =>
             /\ h.token # <<>>
             /\ h.token[1] # " " /\ h.token[Len(h.token)] # " "
             /\ \E a, b \in 0..MaxChunks : h.req.auth = bearerPrefix \o [i \in 1..a |-> " "] \o h.token \o [i \in 1..b |-> " "]
             /\ h.pc = "done" => h.validated = 1

\* a well-formed bearer token behind an injected identity header is refused
\* with 403, Validate not called
C30_Witness ==
    /\ h.pc = "done" /\ h.validated = 0 /\ h.resp.status = 403
    /\ HdrLogin \in h.req.names
    /\ h.req.auth = bearerPrefix \o <<"t">>

\* the header the identity's Email would travel in
HdrEmail == authHeaderPrefix \o <<"E", "m", "a", "i", "l">>

\* the decimal digits of the one modelled user ID, and the modelled rosters
\* as the comma-separated text of their slugs
ExpectedId(id) == IF id = 1 THEN <<"1">> ELSE <<>>

ExpectedTeams(teams) ==
    IF teams = <<>> THEN <<>>
    ELSE IF teams = <<"security", "platform">> THEN <<"security", ",", "platform">>
    ELSE <<"?">>

\* C31: a request with a valid token is answered 200 with the whole
\* identity in headers: X-Auth-User-Login, X-Auth-User-Id, X-Auth-User-Email,
\* X-Auth-User-Org and X-Auth-User-Teams, each the corresponding field of the
\* identity Validate returned, Teams joined by commas in order (empty for no
\* teams).
C31_IdentityHeaders ==
    (h.pc = "done" /\ h.validated = 1 /\ h.out.Err = Nil) =>
       /\ h.resp.status = 200
       /\ {HdrLogin, HdrId, HdrEmail, HdrOrg, HdrTeams} \subseteq DOMAIN h.resp.headers
       /\ h.resp.headers[HdrLogin] = <<h.out.Result.Login>>
       /\ h.resp.headers[HdrId] = ExpectedId(h.out.Result.ID)
       /\ h.resp.headers[HdrEmail] = <<h.out.Result.Email>>
       /\ h.resp.headers[HdrOrg] = <<h.out.Result.Org>>
       /\ h.resp.headers[HdrTeams] = ExpectedTeams(h.out.Result.Teams)

\* ------------------------------------------------------------- HTTPClient
\* An HTTP exchange: whether httpClient.Do failed (the context was
\* cancelled), and otherwise the response's status, its
\* X-RateLimit-Remaining and X-OAuth-Scopes values (character sequences, <<>>
\* when absent), whether its body decodes, the user or the teams it decodes
\* to, and the entries of its Link header.
Statuses == {200, 204, 401, 404, 429, 500}

Remainings == {<<>>, <<"0">>, <<"0", "0">>, <<"5">>, <<"x">>}

\* strconv.Atoi: an optional sign, then digits only
Atoi(s) ==
    LET isDigit(c) == c \in {"0", "1", "2", "3", "4", "5", "6", "7", "8", "9"}
        digitValue(c) == CHOOSE d \in 0..9 : Digit(d) = c
        RECURSIVE decimal(_)
        decimal(ds) == IF ds = <<>> THEN 0 ELSE 10 * decimal(SubSeq(ds, 1, Len(ds) - 1)) + digitValue(ds[Len(ds)])
        signed == s # <<>> /\ s[1] \in {"+", "-"}
        digits == IF signed THEN Tail(s) ELSE s
    IN IF digits = <<>> \/ \E i \in DOMAIN digits : ~isDigit(digits[i])
       THEN [n |-> 0, ok |-> FALSE]
       ELSE [n |-> IF signed /\ s[1] = "-" THEN 0 - decimal(digits) ELSE decimal(digits), ok |-> TRUE]

\* an entry of a Link header: <url>; rel="rel"
Link(url, rel) == [url |-> url, rel |-> rel]

Links == {<<>>, <<Link("page", "next")>>, <<Link("page", "last")>>, <<Link("first", "prev"), Link("page", "next")>>}

\* the teams a page of /user/teams may hold: of the organization, of the
\* organization in another case, of another organization
PageLists == {<<>>, <<Team("security", "Test-Org")>>, <<Team("platform", Org), Team("ops", "other-org")>>}

Exchange(doErr, status, remaining, scopes, decodes, u, teams, link) ==
    [doErr |-> doErr, status |-> status, remaining |-> remaining, scopes |-> scopes,
     decodes |-> decodes, user |-> u, teams |-> teams, link |-> link]

\* httpClient.Do returned an error
DoFailed == Exchange(TRUE, 0, <<>>, <<>>, FALSE, NoUser, <<>>, <<>>)

\* a response that is not a 200 carries no body this client could decode
Failure(st, rem, link) == Exchange(FALSE, st, rem, <<>>, FALSE, NoUser, <<>>, link)

\* what the server may answer to GET /user
UserExchanges ==
    {DoFailed} \cup
    {Failure(st, rem, <<>>) : st \in Statuses \ {200}, rem \in Remainings} \cup
    {Exchange(FALSE, 200, rem, sc, dec, IF dec THEN u ELSE NoUser, <<>>, <<>>) :
        rem \in Remainings, sc \in {<<>>, <<"r", "e", "p", "o">>}, dec \in BOOLEAN, u \in Users}

\* what the server may answer to GET /orgs/{org}/members/{username}
MemberExchanges ==
    {DoFailed} \cup {Failure(st, rem, <<>>) : st \in Statuses, rem \in Remainings}

\* what the server may answer to GET /user/teams; last: no further page
TeamExchanges(last) ==
    {DoFailed} \cup
    {Failure(st, rem, lk) : st \in Statuses \ {200}, rem \in Remainings,
                            lk \in (IF last THEN {<<>>} ELSE {<<>>, <<Link("page", "next")>>})} \cup
    {Exchange(FALSE, 200, rem, <<>>, dec, NoUser, IF dec THEN l ELSE <<>>, lk) :
        rem \in Remainings, dec \in BOOLEAN, l \in PageLists,
        lk \in (IF last THEN {<<>>, <<Link("page", "last")>>} ELSE Links)}

\* fmt.Errorf("github: unexpected status %d: %s", ...)
Unexpected(status) ==
    IF status = 500 THEN GhOther
    ELSE [text |-> <<"github: unexpected status ">> \o Itoa(status) \o <<": ">>, is |-> {}, wrapped |-> TRUE]

\* fmt.Errorf("github: decoding ... response: %w", err)
GhDecode(what) == [text |-> <<"github: decoding ", what, " response: ", "EOF">>, is |-> {"io.EOF"}, wrapped |-> TRUE]

\* checkRateLimit, lines 102-118
checkRateLimit(resp) ==
    IF resp.status = 429 THEN GhErrRateLimited
    ELSE IF resp.remaining = <<>> THEN Nil
    ELSE LET a == Atoi(resp.remaining)
         IN IF ~a.ok THEN Nil
            ELSE IF a.n = 0 THEN GhErrRateLimited
            ELSE Nil

\* what a github.Client method returns
Answered(out, err) == [out |-> out, err |-> err]

\* mutant of GetUser: the status is classified before the rate limit
GetUserStatusFirst(resp) ==
    IF resp.doErr THEN Answered(NoOut, GhCanceled)
    ELSE IF resp.status = 401 THEN Answered(NoOut, GhErrUnauthorized)
    ELSE IF checkRateLimit(resp) # Nil THEN Answered(NoOut, checkRateLimit(resp))
    ELSE IF resp.status < 200 \/ resp.status >= 300 THEN Answered(NoOut, Unexpected(resp.status))
    ELSE IF ~resp.decodes THEN Answered(NoOut, GhDecode("user"))
    ELSE Answered([NoOut EXCEPT !.user = resp.user, !.classic = resp.scopes # <<>>], Nil)

\* GetUser, lines 123-192, on the exchange resp
GetUser(resp) ==
    IF resp.doErr THEN Answered(NoOut, GhCanceled)
    ELSE IF checkRateLimit(resp) # Nil THEN Answered(NoOut, checkRateLimit(resp))
    ELSE IF resp.status = 401 THEN Answered(NoOut, GhErrUnauthorized)
    ELSE IF resp.status < 200 \/ resp.status >= 300 THEN Answered(NoOut, Unexpected(resp.status))
    ELSE IF ~resp.decodes THEN Answered(NoOut, GhDecode("user"))
    ELSE Answered([NoOut EXCEPT !.user = resp.user, !.classic = resp.scopes # <<>>], Nil)

\* CheckOrgMembership, lines 196-261, on the exchange resp
CheckOrgMembership(resp) ==
    IF resp.doErr THEN Answered(NoOut, GhCanceled)
    ELSE IF checkRateLimit(resp) # Nil THEN Answered(NoOut, checkRateLimit(resp))
    ELSE IF resp.status = 204 THEN Answered(NoOut, Nil)
    ELSE IF resp.status = 404 THEN Answered(NoOut, GhErrNotOrgMember)
    ELSE IF resp.status = 401 THEN Answered(NoOut, GhErrUnauthorized)
    ELSE Answered(NoOut, Unexpected(resp.status))

\* parseLinkNext: the url of the first entry whose rel is next, else ""
parseLinkNext(header) ==
    IF \E i \in DOMAIN header : header[i].rel = "next"
    THEN header[CHOOSE i \in DOMAIN header : header[i].rel = "next" /\ \A j \in 1..(i - 1) : header[j].rel # "next"].url
    ELSE ""

\* fetchTeamsPage on the exchange resp: (teams, next, err)
fetchTeamsPage(resp) ==
    IF resp.doErr THEN [teams |-> <<>>, next |-> "", err |-> GhCanceled]
    ELSE IF checkRateLimit(resp) # Nil THEN [teams |-> <<>>, next |-> "", err |-> checkRateLimit(resp)]
    ELSE IF resp.status = 401 THEN [teams |-> <<>>, next |-> "", err |-> GhErrUnauthorized]
    ELSE IF resp.status < 200 \/ resp.status >= 300 THEN [teams |-> <<>>, next |-> "", err |-> Unexpected(resp.status)]
    ELSE IF ~resp.decodes THEN [teams |-> <<>>, next |-> "", err |-> GhDecode("teams")]
    ELSE [teams |-> resp.teams, next |-> parseLinkNext(resp.link), err |-> Nil]

\* strings.EqualFold, on the organization logins drawn
EqualFold(a, b) ==
    LET lower(str) == CASE str = "Test-Org" -> "test-org"
                        [] str = "TEST-ORG" -> "test-org"
                        [] OTHER -> str
    IN lower(a) = lower(b)

\* mutant of FilterOrg: the teams of every organization are kept
FilterOrgKeepsAll(allTeams, org) == allTeams

\* ListUserTeams: the filter loop over allTeams
RECURSIVE FilterOrg(_, _)
FilterOrg(allTeams, org) ==
    IF allTeams = <<>> THEN <<>>
    ELSE IF EqualFold(Head(allTeams).Organization.Login, org)
    THEN <<Head(allTeams)>> \o FilterOrg(Tail(allTeams), org)
    ELSE FilterOrg(Tail(allTeams), org)

\* the client enters method fn, called by goroutine 1's Validate: nothing fetched
Entering(fn) ==
    [pc |-> "paging", fn |-> fn, resp |-> DoFailed, pages |-> <<>>, allTeams |-> <<>>,
     nextURL |-> "first", out |-> NoOut, err |-> Nil]

\* Validate's step 1 over the HTTP client
WireGetUser ==
    /\ pc[1] = "v_getuser"
    /\ \E resp \in UserExchanges :
          LET a == GetUser(resp)
          IN /\ GetUserStep(1, a.err, a.out.user, a.out.classic)
             /\ gh' = [Entering("GetUser") EXCEPT !.pc = "answered", !.resp = resp, !.out = a.out, !.err = a.err]
    /\ UNCHANGED <<h, github>>

\* Validate's step 2 over the HTTP client
WireCheckOrg ==
    /\ pc[1] = "v_check"
    /\ \E resp \in MemberExchanges :
          LET a == CheckOrgMembership(resp)
          IN /\ CheckOrgStep(1, a.err)
             /\ gh' = [Entering("CheckOrgMembership") EXCEPT !.pc = "answered", !.resp = resp, !.out = a.out, !.err = a.err]
    /\ UNCHANGED <<h, github>>

\* Validate's step 3 over the HTTP client: one turn of ListUserTeams' loop,
\* and when the loop ends, the filter, the return and the rest of step 3
WireListPage ==
    /\ pc[1] = "v_teams"
    /\ LET cur == IF gh.pc = "paging" THEN gh ELSE Entering("ListUserTeams")
       IN \E resp \in TeamExchanges(Len(cur.pages) + 1 >= MaxPages) :
             LET page == fetchTeamsPage(resp)
                 allTeams == cur.allTeams \o page.teams
             IN IF page.err # Nil
                THEN /\ ListTeamsStep(1, page.err, <<>>)
                     /\ gh' = [cur EXCEPT !.pc = "answered", !.resp = resp, !.out = NoOut, !.err = page.err]
                ELSE IF page.next = ""
                THEN /\ ListTeamsStep(1, Nil, FilterOrg(allTeams, Org))
                     /\ gh' = [cur EXCEPT !.pc = "answered", !.resp = resp, !.pages = Append(@, page.teams),
                                           !.allTeams = allTeams, !.nextURL = "",
                                           !.out = [NoOut EXCEPT !.teams = FilterOrg(allTeams, Org)]]
                ELSE /\ gh' = [cur EXCEPT !.resp = resp, !.pages = Append(@, page.teams),
                                           !.allTeams = allTeams, !.nextURL = page.next]
                     /\ UNCHANGED <<cacheVars, thrVars, valVars>>
    /\ UNCHANGED <<h, github>>

\* the cache and the validator of main, nothing else using them
WireInit ==
    /\ ttl = MaxTTL
    /\ maxSize = MaxCap
    /\ cpc = "loop"
    /\ interval = Interval(ttl)
    /\ NewCache
    /\ rejectClassicPATs \in BOOLEAN
    /\ h = NoRequest
    /\ gh = NoExchange
    /\ github = <<>>

\* Validate is entered with the one token this client is used for: the
\* client has no call in progress
WireCall ==
    /\ ValidateEnter(1)
    /\ tok'[1] = 1
    /\ gh' = NoExchange
    /\ UNCHANGED <<h, github>>

WireNext ==
    \/ WireCall \/ ValidateGot(1) \/ ValidateReturn(1)
    \/ WireGetUser \/ WireCheckOrg \/ WireListPage
    \/ CacheStep(1)
    \/ Tick

WireSpec == WireInit /\ [][WireNext]_vars

\* ---------------------------------------- a github.Client that is stable
\* the answers of the client for one token: GetUser's (user, classic, err),
\* CheckOrgMembership's err, ListUserTeams' (teams, err); the answers of a
\* call that Validate cannot reach are left at their zero values
Behaviour(userErr, u, isClassicPAT, memberErr, teamsErr, teams) ==
    [userErr |-> userErr, user |-> u, classic |-> isClassicPAT, memberErr |-> memberErr,
     teamsErr |-> teamsErr, teams |-> teams]

\* the errors of such a client: the caller's cancellation is not one
Behaviours ==
    LET errs == ProviderErrs \ Aborted
    IN {Behaviour(e, NoUser, FALSE, Nil, Nil, <<>>) : e \in errs} \cup
       {Behaviour(Nil, u, c, e, Nil, <<>>) : u \in Users, c \in BOOLEAN, e \in errs} \cup
       {Behaviour(Nil, u, c, Nil, e, <<>>) : u \in Users, c \in BOOLEAN, e \in errs} \cup
       {Behaviour(Nil, u, c, Nil, Nil, l) : u \in Users, c \in BOOLEAN, l \in TeamLists}

\* the tokens the clients present
Presented == 1..(NumTokens - 1)

StableCall ==
    /\ ValidateCall(1)
    /\ tok'[1] \in Presented

StableGetUser ==
    /\ GetUserStep(1, github[tok[1]].userErr, github[tok[1]].user, github[tok[1]].classic)
    /\ UNCHANGED frontVars

StableCheckOrg ==
    /\ CheckOrgStep(1, github[tok[1]].memberErr)
    /\ UNCHANGED frontVars

StableListTeams ==
    /\ ListTeamsStep(1, github[tok[1]].teamsErr, github[tok[1]].teams)
    /\ UNCHANGED frontVars

StableInit ==
    /\ CacheInit
    /\ rejectClassicPATs \in BOOLEAN
    /\ h = NoRequest
    /\ gh = NoExchange
    /\ github \in [Presented -> Behaviours]

StableNext ==
    \/ StableCall \/ ValidateGot(1) \/ ValidateReturn(1)
    \/ StableGetUser \/ StableCheckOrg \/ StableListTeams
    \/ CacheStep(1)
    \/ Sweeping

StableSpec == StableInit /\ [][StableNext]_vars

\* a response that reports the rate limit as exhausted
RateLimitedResponse(resp) == ~resp.doErr /\ (resp.status = 429 \/ resp.remaining = <<"0">>)

\* C32: whenever the response the client received for GetUser, for
\* CheckOrgMembership or for a page of ListUserTeams has status 429 or an
\* X-RateLimit-Remaining of 0, whatever its status and body, the method has
\* returned github.ErrRateLimited with nothing else (for ListUserTeams the
\* paging stops there), and Validate has returned at that call with no result
\* and an error that is ErrRateLimited and neither ErrUnauthorized nor
\* ErrNotOrgMember, without preparing any Set.
C32_RateLimitFirst ==
    (gh.pc # "none" /\ RateLimitedResponse(gh.resp)) =>
        /\ gh.pc = "answered"
        /\ gh.err = GhErrRateLimited
        /\ gh.out = NoOut
        /\ pcalls[1] # <<>>
        /\ LastCall(1).fn = gh.fn
        /\ LastCall(1).err = GhErrRateLimited
        /\ pc[1] = "done"
        /\ ~vret[1].Ptr
        /\ Class(vret[1].Err) = "RateLimited"
        /\ ~Is(vret[1].Err, ErrUnauthorized)
        /\ ~Is(vret[1].Err, ErrNotOrgMember)
        /\ arg[1] = NoArg

\* the second page of teams is a decodable 200 with a next link and a
\* remaining of 0, and Validate has returned
C32_Witness ==
    /\ gh.pc = "answered"
    /\ gh.fn = "ListUserTeams"
    /\ Len(gh.pages) = 1
    /\ gh.resp.status = 200
    /\ gh.resp.remaining = <<"0">>
    /\ gh.resp.decodes
    /\ parseLinkNext(gh.resp.link) # ""
    /\ pc[1] = "done"

\* the teams of the pages fetched, in page order then in-page order
RECURSIVE Concat(_)
Concat(pages) == IF pages = <<>> THEN <<>> ELSE Head(pages) \o Concat(Tail(pages))

\* the i-th smallest element of a set of numbers
Nth(S, i) == CHOOSE x \in S : Cardinality({y \in S : y < x}) = i - 1

\* the elements of all whose organization is org ignoring case, in order
Roster(all, org) ==
    LET kept == {i \in DOMAIN all : EqualFold(all[i].Organization.Login, org)}
    IN [i \in 1..Cardinality(kept) |-> all[Nth(kept, i)]]

\* C33: ListUserTeams is all-or-nothing. While it is paging, every page
\* fetched so far named a next page and Validate has been given no teams;
\* when it has returned an error it has returned no teams and Validate
\* fails; when it has returned without error the last page named no next
\* page and the teams returned, which are the ones Validate uses, are those
\* of all the pages fetched, in page order then in-page order, restricted to
\* the teams whose organization login is the requested one ignoring case.
C33_AllOrNothing ==
    (gh.pc # "none" /\ gh.fn = "ListUserTeams") =>
        /\ gh.allTeams = Concat(gh.pages)
        /\ gh.pc = "paging" =>
              /\ gh.pages # <<>> => (~gh.resp.doErr /\ parseLinkNext(gh.resp.link) # "")
              /\ pc[1] = "v_teams"
              /\ LastCall(1).fn = "CheckOrgMembership"
              /\ vret[1] = NoVret
        /\ (gh.pc = "answered" /\ gh.err # Nil) =>
              /\ gh.out = NoOut
              /\ LastCall(1).fn = "ListUserTeams"
              /\ LastCall(1).out = NoOut
              /\ pc[1] = "done"
              /\ ~vret[1].Ptr
              /\ vret[1].Err # Nil
        /\ (gh.pc = "answered" /\ gh.err = Nil) =>
              /\ ~gh.resp.doErr
              /\ parseLinkNext(gh.resp.link) = ""
              /\ gh.out.teams = Roster(Concat(gh.pages), Org)
              /\ LastCall(1).fn = "ListUserTeams"
              /\ LastCall(1).out.teams = gh.out.teams
              /\ LastCall(1).err = Nil

\* three pages were fetched and the teams returned are fewer than the teams
\* fetched, one of them of the organization written in another case
C33_Witness ==
    /\ gh.pc = "answered"
    /\ gh.fn = "ListUserTeams"
    /\ gh.err = Nil
    /\ Len(gh.pages) = MaxPages
    /\ Len(gh.out.teams) < Len(gh.allTeams)
    /\ \E i \in DOMAIN gh.out.teams : gh.out.teams[i].Organization.Login = "Test-Org"
    /\ \E i \in DOMAIN gh.out.teams : gh.out.teams[i].Organization.Login = Org
    /\ pc[1] = "done"

\* the sweep pass removes the entry of key k
SweepRemoves(k) == cpc = "re_range" /\ k \in DOMAIN entries /\ k \notin DOMAIN entries'

\* between the pass sampling the time and taking the lock, a Set overwrites
\* the entry of key k, which the pass would have removed
Overwrites(k) ==
    /\ cpc = "re_lock"
    /\ k \in DOMAIN entries
    /\ cnow > entries[k].ExpiresAt
    /\ k \in DOMAIN entries'
    /\ entries'[k] # entries[k]

\* the pass holds the lock and the entry of key k is not before the time
\* it sampled
Spared(k) == cpc = "re_range" /\ k \in DOMAIN entries /\ ~(entries[k].ExpiresAt < cnow)

\* C34: the sweep removes an entry only if its ExpiresAt is strictly before
\* the time the pass sampled, and then a Get at that moment reports a miss
\* for it (the time sampled is not after the clock, and Get's test is the
\* same After); an entry that a Set overwrites between the sampling and the
\* lock is not before the sampled time, and entries that are not before it
\* are left as they are as long as the pass holds the lock.
C34_SweepSparesHits ==
    [][\A k \in Keys :
          /\ SweepRemoves(k) =>
                /\ entries[k].ExpiresAt < cnow
                /\ cnow <= now
                /\ After(now, entries[k].ExpiresAt)
          /\ Overwrites(k) => ~(entries'[k].ExpiresAt < cnow')
          /\ Spared(k) => (k \in DOMAIN entries' /\ entries'[k] = entries[k])]_vars

\* a pass that sampled the time after the first Set of a token had expired
\* holds the lock with nothing to delete, the second Set of that token
\* having been made at the sampled time
C34_Witness ==
    /\ cpc = "re_range"
    /\ Expired = {}
    /\ calls = 2
    /\ op[1] = "Set" /\ pc[1] = "done"
    /\ op[2] = "Set" /\ pc[2] = "done"
    /\ tok[1] = tok[2]
    /\ ret[1].At + ttl < cnow
    /\ ret[2].At = cnow
    /\ hashToken(tok[2]) \in DOMAIN entries
    /\ entries[hashToken(tok[2])].ExpiresAt = cnow + ttl

\* C35: whatever the interleaving of the goroutines that call Stop, no call
\* panics: every close of the stop channel but the first is replaced by the
\* "already stopped" branch of the select.
C35_ConcurrentStopSafe == ~panicked

\* the Get of goroutine t's Validate found a negative entry
NegativeHit(t) == pcalls[t] = <<>> /\ ret[t].Found /\ ret[t].Err # Nil

\* GetUser, the only call of goroutine t's Validate, answered ErrUnauthorized
GetUserUnauthorized(t) ==
    /\ Len(pcalls[t]) = 1
    /\ pcalls[t][1].fn = "GetUser"
    /\ Is(pcalls[t][1].err, GhErrUnauthorized)

\* the last call of goroutine t's Validate, at step 2 or 3, answered
\* ErrUnauthorized
LateUnauthorized(t) ==
    /\ pcalls[t] # <<>>
    /\ LastCall(t).fn \in {"CheckOrgMembership", "ListUserTeams"}
    /\ Is(LastCall(t).err, GhErrUnauthorized)

\* C36: a Validate that has returned an error matching ErrUnauthorized
\* found a negative entry in the cache or was answered ErrUnauthorized by
\* GetUser; when CheckOrgMembership or ListUserTeams answers
\* ErrUnauthorized, Validate has returned at that call, with no result and
\* the provider's error wrapped behind the step's prefix, an error that does
\* not match ErrUnauthorized and is classified Internal, and no Set was
\* prepared.
C36_UnauthorizedOrigin ==
    \A t \in Threads :
       /\ (Returned(t) /\ Is(vret[t].Err, ErrUnauthorized)) => (NegativeHit(t) \/ GetUserUnauthorized(t))
       /\ (op[t] = "Validate" /\ LateUnauthorized(t)) =>
             /\ pc[t] = "done"
             /\ ~vret[t].Ptr
             /\ vret[t].Err = Errorf(StepPrefix(LastCall(t).fn), LastCall(t).err)
             /\ vret[t].Err.wrapped
             /\ ~Is(vret[t].Err, ErrUnauthorized)
             /\ Class(vret[t].Err) = "Internal"
             /\ arg[t] = NoArg

\* ListUserTeams answered ErrUnauthorized to one goroutine, and GetUser to
\* the other, which returned ErrUnauthorized
C36_Witness ==
    /\ Returned(1) /\ LateUnauthorized(1) /\ LastCall(1).fn = "ListUserTeams"
    /\ Returned(2) /\ GetUserUnauthorized(2) /\ Is(vret[2].Err, ErrUnauthorized)

\* the keys whose entries a Get now reports as expired
Stale == {k \in DOMAIN entries : After(now, entries[k].ExpiresAt)}

\* goroutine t takes the step of Len that reads the map
LenReads(t) == pc[t] = "len_rlock" /\ pc'[t] = "done"

\* goroutine t's Set evicts the entry of key v
Evicts(t, v) == SetLocks(t) /\ v \in DOMAIN entries /\ v \notin DOMAIN entries'

\* C37: Len reports the number of entries of the map, expired ones included,
\* and that number is the one compared with maxSize: a Set of a new key on a
\* map of maxSize entries evicts even when entries are expired.  The entry
\* evicted has the minimum ExpiresAt of the map, so it is an expired one
\* whenever the map holds an expired entry, and it is never the entry of the
\* key being set: when the Set's insert is done that key is in the map.
C37_ExpiredCountAndVictim ==
    [][\A t \in Threads :
          /\ LenReads(t) => ret'[t].Len = Cardinality(Stale) + Cardinality(DOMAIN entries \ Stale)
          /\ (SetLocks(t) /\ hashToken(tok[t]) \notin DOMAIN entries /\ maxSize > 0
                /\ Cardinality(Stale) + Cardinality(DOMAIN entries \ Stale) >= maxSize) =>
                \E v \in DOMAIN entries : Evicts(t, v)
          /\ \A v \in Keys : Evicts(t, v) =>
                /\ v # hashToken(tok[t])
                /\ \A j \in DOMAIN entries : entries[v].ExpiresAt <= entries[j].ExpiresAt
                /\ Stale # {} => v \in Stale
          /\ SetInserts(t) => hashToken(tok[t]) \in DOMAIN entries']_vars

\* on a cache of two, a Set at time 2 has evicted the entry another
\* goroutine set at time 0, expired since, and not the unexpired entry that
\* is still in the map
C37_Witness ==
    \E t \in Threads, u \in Threads :
       /\ t # u
       /\ calls = 3
       /\ maxSize = 2
       /\ CacheLen = 2
       /\ op[u] = "Set" /\ pc[u] = "done" /\ ret[u].At = 0
       /\ hashToken(tok[u]) \notin DOMAIN entries
       /\ ret[u].At + ttl < now
       /\ op[t] = "Set" /\ pc[t] = "done" /\ adds[t].evictions = 1 /\ ret[t].At = now
       /\ hashToken(tok[t]) \in DOMAIN entries
       /\ \A k \in DOMAIN entries : ~After(now, entries[k].ExpiresAt)

\* no entry of the map was written in the future: its ExpiresAt, the time
\* of its Set plus ttl, is at most ttl ahead
WrittenByNow == \A k \in DOMAIN entries : entries[k].ExpiresAt <= now + ttl

\* the Get of goroutine t's Validate compares the entry it read with the
\* clock
Checks(t) == op[t] = "Validate" /\ pc[t] = "get_check" /\ pc'[t] # "get_check"

\* C38: an entry is written with ExpiresAt equal to the time of its Set
\* plus ttl; the Get of a Validate reports a hit only if the clock is not
\* past the ExpiresAt of the entry it read, so what Validate returns without
\* calling the provider was Set at most ttl before; when the clock is past
\* it the Get reports a miss, a Validate that missed goes on to the provider
\* and the first call it makes is GetUser.
C38_BoundedStaleness ==
    [][/\ WrittenByNow /\ WrittenByNow'
       /\ \A t \in Threads :
             /\ SetInserts(t) => entries'[hashToken(tok[t])].ExpiresAt = now + ttl
             /\ (Checks(t) /\ ret'[t].Found) =>
                   /\ now <= loc[t].entry.ExpiresAt
                   /\ now - (loc[t].entry.ExpiresAt - ttl) <= ttl
                   /\ ret'[t].Result = loc[t].entry.Result
                   /\ ret'[t].Err = loc[t].entry.Err
             /\ (Checks(t) /\ now > loc[t].entry.ExpiresAt) => (~ret'[t].Found /\ pc'[t] = "v_got")
             /\ (pc[t] = "v_got" /\ ~ret[t].Found /\ pc'[t] # "v_got") => pc'[t] = "v_getuser"
             /\ (pc[t] = "v_getuser" /\ pc'[t] # "v_getuser") =>
                   (Len(pcalls'[t]) = 1 /\ pcalls'[t][1].fn = "GetUser")]_vars

\* a token was authorized and cached; more than ttl later the next Validate
\* of that token asked GetUser again, was answered ErrUnauthorized and
\* returned ErrUnauthorized
C38_Witness ==
    \E t \in Threads :
       /\ Alone(t) /\ Returned(t)
       /\ ttl > 0
       /\ prev.op = "Validate" /\ prev.tok = tok[t]
       /\ prev.arg # NoArg /\ prev.arg[2] = Nil
       /\ prev.at >= 0 /\ now > prev.at + ttl
       /\ pcalls[t] # <<>>
       /\ pcalls[t][1].fn = "GetUser"
       /\ Is(pcalls[t][1].err, GhErrUnauthorized)
       /\ Is(vret[t].Err, ErrUnauthorized)

\* what a caller sees of a value returned by Validate: whether there is a
\* result, the identity in it, and the kind of the error
Outcome(v) == [ok |-> v.Ptr, identity |-> v.Result, kind |-> IF v.Err = Nil THEN "Authorized" ELSE Class(v.Err)]

Denied(kind) == [ok |-> FALSE, identity |-> ZeroResult, kind |-> kind]

\* the outcome that the answers b of the client determine when every call
\* goes to the client
Direct(b) ==
    IF b.userErr # Nil
    THEN Denied(IF b.userErr = GhErrRateLimited THEN "RateLimited"
                ELSE IF b.userErr = GhErrUnauthorized THEN "Unauthorized" ELSE "Internal")
    ELSE IF rejectClassicPATs /\ b.classic THEN Denied("ClassicPAT")
    ELSE IF b.memberErr # Nil
    THEN Denied(IF b.memberErr = GhErrRateLimited THEN "RateLimited"
                ELSE IF b.memberErr = GhErrNotOrgMember THEN "NotMember" ELSE "Internal")
    ELSE IF b.teamsErr # Nil
    THEN Denied(IF b.teamsErr = GhErrRateLimited THEN "RateLimited" ELSE "Internal")
    ELSE [ok |-> TRUE,
          identity |-> [Login |-> b.user.Login, ID |-> b.user.ID, Email |-> b.user.Email, Org |-> Org,
                        Teams |-> [i \in DOMAIN b.teams |-> b.teams[i].Slug]],
          kind |-> "Authorized"]

\* C39: with a client whose answers depend on the token only, every Validate
\* returns, whatever ttl, the outcome those answers determine for its token:
\* with ttl = 0 every Validate calls the client and returns that outcome, and
\* with ttl > 0 every Validate returns that same outcome, called the client or
\* not.
C39_CacheTransparent ==
    Returned(1) =>
        /\ Outcome(vret[1]) = Direct(github[tok[1]])
        /\ ttl = 0 => pcalls[1] # <<>>

\* the second Validate of a token is answered from the cache with the
\* identity and the teams the first one obtained
C39_Witness ==
    /\ Returned(1)
    /\ ttl > 0
    /\ calls = 2
    /\ prev.op = "Validate" /\ prev.tok = tok[1]
    /\ ret[1].Found
    /\ pcalls[1] = <<>>
    /\ vret[1].Ptr
    /\ vret[1].Result.Teams # <<>>

====
